---- MODULE Spec2Model ----
(***************************************************************************)
(* Query-cache persistence of the photo gallery (queryPersistence.js):     *)
(* serialize / deserialize, saveToStorage / loadFromStorage over           *)
(* localStorage, the debounced throttledSave and initializePersistence.    *)
(*                                                                         *)
(* JavaScript values are tagged records [t |-> type, v |-> payload].       *)
(* A JavaScript string is a sequence of one-character strings, so that     *)
(* JSON.stringify, JSON.parse and startsWith work on the text itself.      *)
(* One element, Chunk, stands for a run of ChunkWidth ordinary characters: *)
(* it lets a string be tens of megabytes long, which MAX_CACHE_SIZE needs. *)
(***************************************************************************)
EXTENDS Integers, Sequences, FiniteSets, TLC

VARIABLES
    now,          \* Date.now(), in milliseconds
    cache,        \* queryClient.getQueryCache().getAll(): sequence of queries
    storage,      \* localStorage: set of entries [k |-> key, v |-> string]
    timers,       \* pending setTimeout callbacks: set of [id, due]
    saveTimeout,  \* the module variable saveTimeout (0: undefined)
    wrapDepth,    \* how many times queryClient.setQueryData has been wrapped
    subs,         \* instances whose query-cache subscription is active
    listeners,    \* instances whose beforeunload listener is registered
    inits,        \* number of initializePersistence calls that have returned
    call,         \* the last call observed: its name, inputs and outcome
    hist,         \* counters of the calls made so far
    hook,         \* the usePersistence hook of the mounted AppContent
    svc,          \* photoService: the fetchPhotos call in progress
    gallery,      \* PhotoGallery: the infinite query, the handlers and state
    modal,        \* PhotoModal, as PhotoGallery mounts it for selectedPhoto
    boundary,     \* ErrorBoundary: its props, its state and what it rendered
    sw            \* the service worker: its cache and the fetch events in progress

\* The state of the components around the persistence module.
components == <<hook, svc, gallery, modal, boundary, sw>>
\* The components other than the one named.
besidesHook == <<svc, gallery, modal, boundary, sw>>
besidesSvc == <<hook, gallery, modal, boundary, sw>>
besidesGallery == <<hook, svc, modal, boundary, sw>>
besidesModal == <<hook, svc, gallery, boundary, sw>>
besidesBoundary == <<hook, svc, gallery, modal, sw>>
besidesWorker == <<hook, svc, gallery, modal, boundary>>

vars == <<now, cache, storage, timers, saveTimeout, wrapDepth, subs, listeners,
          inits, call, hist, components>>

----------------------------------------------------------------------------
(* Strings *)

CACHE_KEY == <<"p","h","o","t","o","-","g","a","l","l","e","r","y","-","c","a","c","h","e">>
CACHE_VERSION == <<"1",".","0",".","0">>
MAX_CACHE_SIZE == 50 * 1024 * 1024
CACHE_EXPIRY == 24 * 60 * 60 * 1000

\* The literal 'photo-gallery-cache-old-' of cleanupStorage.
OldCachePrefix == <<"p","h","o","t","o","-","g","a","l","l","e","r","y","-","c","a","c","h","e","-","o","l","d","-">>

\* The other string literals of the module, by name.
Lit == [
    photos            |-> <<"p","h","o","t","o","s">>,
    photoInfo         |-> <<"p","h","o","t","o","I","n","f","o">>,
    slideshowPhotos   |-> <<"s","l","i","d","e","s","h","o","w","P","h","o","t","o","s">>,
    prefetchedImage   |-> <<"p","r","e","f","e","t","c","h","e","d","I","m","a","g","e">>,
    realtime          |-> <<"r","e","a","l","t","i","m","e">>,
    user              |-> <<"u","s","e","r">>,
    version           |-> <<"v","e","r","s","i","o","n">>,
    timestamp         |-> <<"t","i","m","e","s","t","a","m","p">>,
    queries           |-> <<"q","u","e","r","i","e","s">>,
    data              |-> <<"d","a","t","a">>,
    dataUpdateCount   |-> <<"d","a","t","a","U","p","d","a","t","e","C","o","u","n","t">>,
    dataUpdatedAt     |-> <<"d","a","t","a","U","p","d","a","t","e","d","A","t">>,
    errorUpdateCount  |-> <<"e","r","r","o","r","U","p","d","a","t","e","C","o","u","n","t">>,
    errorUpdatedAt    |-> <<"e","r","r","o","r","U","p","d","a","t","e","d","A","t">>,
    fetchFailureCount |-> <<"f","e","t","c","h","F","a","i","l","u","r","e","C","o","u","n","t">>,
    isInvalidated     |-> <<"i","s","I","n","v","a","l","i","d","a","t","e","d">>,
    status            |-> <<"s","t","a","t","u","s">>,
    fetchStatus       |-> <<"f","e","t","c","h","S","t","a","t","u","s">>,
    success           |-> <<"s","u","c","c","e","s","s">>,
    idle              |-> <<"i","d","l","e">>,
    error             |-> <<"e","r","r","o","r">>,
    loading           |-> <<"l","o","a","d","i","n","g">>,
    fetching          |-> <<"f","e","t","c","h","i","n","g">> ]

\* One element of a string that stands for ChunkWidth characters 'x'.
Chunk == "x..x"
ChunkWidth == 30 * 1024 * 1024
CharWidth(c) == IF c = Chunk THEN ChunkWidth ELSE 1

\* String.prototype.length
JsLength(s) ==
    Len(s) + Cardinality({i \in 1..Len(s) : CharWidth(s[i]) # 1}) * (ChunkWidth - 1)

\* String.prototype.startsWith
StartsWith(s, prefix) ==
    /\ Len(s) >= Len(prefix)
    /\ SubSeq(s, 1, Len(prefix)) = prefix

----------------------------------------------------------------------------
(* JavaScript values *)

Undefined == [t |-> "undefined"]
Null == [t |-> "null"]
Num(n) == [t |-> "number", v |-> n]
Str(s) == [t |-> "string", v |-> s]
Bool(b) == [t |-> "boolean", v |-> b]
Arr(elems) == [t |-> "array", v |-> elems]
\* An object: its own properties in insertion order, each [k |-> name, v |-> value].
Obj(props) == [t |-> "object", v |-> props]

\* ToBoolean, as applied by !x and by `a && b`.
Truthy(x) ==
    CASE x.t \in {"undefined", "null"} -> FALSE
      [] x.t = "number" -> x.v # 0
      [] x.t = "string" -> x.v # <<>>
      [] x.t = "boolean" -> x.v
      [] OTHER -> TRUE

HasOwn(o, name) == o.t = "object" /\ \E i \in 1..Len(o.v) : o.v[i].k = name

\* Property read o.name (undefined when absent, or when o is a primitive).
Get(o, name) ==
    IF HasOwn(o, name)
    THEN o.v[CHOOSE i \in 1..Len(o.v) : o.v[i].k = name].v
    ELSE Undefined

\* Property write o[name] = value: in place when present, appended otherwise.
Put(o, name, value) ==
    IF HasOwn(o, name)
    THEN Obj([i \in 1..Len(o.v) |->
                IF o.v[i].k = name THEN [k |-> name, v |-> value] ELSE o.v[i]])
    ELSE Obj(Append(o.v, [k |-> name, v |-> value]))

----------------------------------------------------------------------------
(* JSON.stringify: the text it produces, without indentation *)

DigitChars == <<"0","1","2","3","4","5","6","7","8","9">>

RECURSIVE NumberToString(_)
NumberToString(n) ==
    IF n < 10 THEN <<DigitChars[n + 1]>>
    ELSE NumberToString(n \div 10) \o <<DigitChars[(n % 10) + 1]>>

RECURSIVE JsonEscape(_)
JsonEscape(s) ==
    IF s = <<>> THEN <<>>
    ELSE (IF Head(s) \in {"\"", "\\"} THEN <<"\\", Head(s)>> ELSE <<Head(s)>>)
         \o JsonEscape(Tail(s))

JsonQuote(s) == <<"\"">> \o JsonEscape(s) \o <<"\"">>

\* A property whose value is undefined is left out of an object.
Serializable(props) == SelectSeq(props, LAMBDA p : p.v.t # "undefined")

RECURSIVE JsonStringify(_)
RECURSIVE JsonJoin(_, _)
\* parts[1], parts[2], ... as JSON, separated by commas; member: are these
\* the properties of an object (name:value) rather than array elements.
JsonJoin(parts, member) ==
    IF parts = <<>> THEN <<>>
    ELSE LET p == Head(parts)
             one == IF member THEN JsonQuote(p.k) \o <<":">> \o JsonStringify(p.v)
                    ELSE JsonStringify(p)
         IN  IF Len(parts) = 1 THEN one
             ELSE one \o <<",">> \o JsonJoin(Tail(parts), member)

JsonStringify(x) ==
    CASE x.t = "number" -> NumberToString(x.v)
      [] x.t = "string" -> JsonQuote(x.v)
      [] x.t = "boolean" -> IF x.v THEN <<"t","r","u","e">> ELSE <<"f","a","l","s","e">>
      [] x.t = "array" -> <<"[">> \o JsonJoin(x.v, FALSE) \o <<"]">>
      [] x.t = "object" -> <<"{">> \o JsonJoin(Serializable(x.v), TRUE) \o <<"}">>
      [] OTHER -> <<"n","u","l","l">>   \* null, and undefined inside an array

----------------------------------------------------------------------------
(* JSON.parse: a recursive-descent parser of the text.  A result is        *)
(* [ok, val, next]: whether a value was read at position i, the value, and *)
(* the position after it.                                                  *)

ParseFail == [ok |-> FALSE, val |-> Undefined, next |-> 0]
ParseOk(val, next) == [ok |-> TRUE, val |-> val, next |-> next]

At(s, i) == IF i >= 1 /\ i <= Len(s) THEN s[i] ELSE ""
Matches(s, i, word) == i + Len(word) - 1 <= Len(s) /\ SubSeq(s, i, i + Len(word) - 1) = word
IsDigit(c) == \E d \in 1..10 : DigitChars[d] = c
DigitValue(c) == (CHOOSE d \in 1..10 : DigitChars[d] = c) - 1

\* The characters of a string literal from position i (after the opening
\* quote) up to its closing quote.
RECURSIVE ParseChars(_, _, _)
ParseChars(s, i, acc) ==
    LET c == At(s, i) IN
    CASE c = "" -> ParseFail
      [] c = "\"" -> ParseOk(acc, i + 1)
      [] c = "\\" -> IF At(s, i + 1) \in {"\"", "\\"}
                     THEN ParseChars(s, i + 2, Append(acc, At(s, i + 1)))
                     ELSE ParseFail
      [] OTHER -> ParseChars(s, i + 1, Append(acc, c))

\* A number: digits only, no leading zero.
RECURSIVE ParseDigits(_, _, _)
ParseDigits(s, i, acc) ==
    IF IsDigit(At(s, i)) THEN ParseDigits(s, i + 1, acc * 10 + DigitValue(At(s, i)))
    ELSE ParseOk(Num(acc), i)

RECURSIVE ParseValue(_, _)
RECURSIVE ParseElements(_, _, _)
RECURSIVE ParseMembers(_, _, _)

ParseValue(s, i) ==
    LET c == At(s, i) IN
    CASE c = "\"" -> LET r == ParseChars(s, i + 1, <<>>)
                     IN  IF r.ok THEN ParseOk(Str(r.val), r.next) ELSE ParseFail
      [] IsDigit(c) -> IF c = "0" /\ IsDigit(At(s, i + 1)) THEN ParseFail
                       ELSE ParseDigits(s, i, 0)
      [] c = "[" -> IF At(s, i + 1) = "]" THEN ParseOk(Arr(<<>>), i + 2)
                    ELSE ParseElements(s, i + 1, <<>>)
      [] c = "{" -> IF At(s, i + 1) = "}" THEN ParseOk(Obj(<<>>), i + 2)
                    ELSE ParseMembers(s, i + 1, Obj(<<>>))
      [] Matches(s, i, <<"t","r","u","e">>) -> ParseOk(Bool(TRUE), i + 4)
      [] Matches(s, i, <<"f","a","l","s","e">>) -> ParseOk(Bool(FALSE), i + 5)
      [] Matches(s, i, <<"n","u","l","l">>) -> ParseOk(Null, i + 4)
      [] OTHER -> ParseFail

ParseElements(s, i, acc) ==
    LET r == ParseValue(s, i) IN
    IF ~r.ok THEN ParseFail
    ELSE CASE At(s, r.next) = "," -> ParseElements(s, r.next + 1, Append(acc, r.val))
           [] At(s, r.next) = "]" -> ParseOk(Arr(Append(acc, r.val)), r.next + 1)
           [] OTHER -> ParseFail

ParseMembers(s, i, acc) ==
    LET name == IF At(s, i) = "\"" THEN ParseChars(s, i + 1, <<>>) ELSE ParseFail IN
    IF ~name.ok \/ At(s, name.next) # ":" THEN ParseFail
    ELSE LET r == ParseValue(s, name.next + 1) IN
         IF ~r.ok THEN ParseFail
         ELSE CASE At(s, r.next) = "," ->
                       ParseMembers(s, r.next + 1, Put(acc, name.val, r.val))
                [] At(s, r.next) = "}" ->
                       ParseOk(Put(acc, name.val, r.val), r.next + 1)
                [] OTHER -> ParseFail

\* JSON.parse(text): [ok |-> FALSE] stands for the SyntaxError it throws.
JsonParse(text) ==
    LET r == ParseValue(text, 1) IN
    IF r.ok /\ r.next = Len(text) + 1 THEN r ELSE ParseFail

----------------------------------------------------------------------------
(* queryPersistence.js: serialize, deserialize *)

persistableQueries == <<Lit.photos, Lit.photoInfo, Lit.slideshowPhotos>>
nonPersistableQueries == <<Lit.prefetchedImage, Lit.realtime, Lit.user>>

\* Array.prototype.includes on an array of string literals.
Includes(list, x) == \E i \in 1..Len(list) : x = Str(list[i])

ShouldPersistQueryNoTypeCheck(queryKey) == TRUE

ShouldPersistQuery(queryKey) ==
    LET type == IF Len(queryKey.v) >= 1 THEN queryKey.v[1] ELSE Undefined IN
    IF Includes(nonPersistableQueries, type) THEN FALSE
    ELSE Includes(persistableQueries, type)

\* The object serialize stores for one query.
PersistedState(state) ==
    Obj(<< [k |-> Lit.data,              v |-> Get(state, Lit.data)],
           [k |-> Lit.dataUpdateCount,   v |-> Get(state, Lit.dataUpdateCount)],
           [k |-> Lit.dataUpdatedAt,     v |-> Get(state, Lit.dataUpdatedAt)],
           [k |-> Lit.errorUpdateCount,  v |-> Get(state, Lit.errorUpdateCount)],
           [k |-> Lit.errorUpdatedAt,    v |-> Get(state, Lit.errorUpdatedAt)],
           [k |-> Lit.fetchFailureCount, v |-> Get(state, Lit.fetchFailureCount)],
           [k |-> Lit.isInvalidated,     v |-> Get(state, Lit.isInvalidated)],
           [k |-> Lit.status,            v |-> Get(state, Lit.status)],
           [k |-> Lit.fetchStatus,       v |-> Str(Lit.idle)] >>)

\* The reducer of serialize, applied to queries[i..].
RECURSIVE SerializeQueries(_, _, _)
SerializeQueries(queries, i, acc) ==
    IF i > Len(queries) THEN acc
    ELSE LET query == queries[i]
             keep == /\ Get(query.state, Lit.status) = Str(Lit.success)
                     /\ Truthy(Get(query.state, Lit.data))
                     /\ ShouldPersistQuery(query.queryKey)
         IN  SerializeQueries(queries, i + 1,
                 IF keep
                 THEN Put(acc, JsonStringify(query.queryKey), PersistedState(query.state))
                 ELSE acc)

\* serialize(client), with client.getQueryCache().getAll() = queries and Date.now() = t.
Serialize(queries, t) ==
    Obj(<< [k |-> Lit.version,   v |-> Str(CACHE_VERSION)],
           [k |-> Lit.timestamp, v |-> Num(t)],
           [k |-> Lit.queries,   v |-> SerializeQueries(queries, 1, Obj(<<>>))] >>)

\* What a call does: it returns ret, or it throws.
Returns(ret) == [threw |-> FALSE, ret |-> ret]
Throws == [threw |-> TRUE, ret |-> Undefined]

\* Date.now() - cached.timestamp > CACHE_EXPIRY; the difference is NaN, and
\* the comparison false, when the timestamp is undefined.
IsExpiredStrict(cached, t) ==
    LET ts == Get(cached, Lit.timestamp) IN
    CASE ts.t = "number" -> t - ts.v >= CACHE_EXPIRY
      [] ts.t = "null" -> t >= CACHE_EXPIRY
      [] OTHER -> FALSE

IsExpired(cached, t) ==
    LET ts == Get(cached, Lit.timestamp) IN
    CASE ts.t = "number" -> t - ts.v > CACHE_EXPIRY
      [] ts.t = "null" -> t > CACHE_EXPIRY
      [] OTHER -> FALSE

\* The map callback of deserialize for one [key, value] entry.
DeserializedQuery(entry) ==
    [queryKey |-> JsonParse(entry.k).val, queryHash |-> entry.k, state |-> entry.v]

\* deserialize(cached), with Date.now() = t.
Deserialize(cached, t) ==
    IF ~Truthy(cached) \/ Get(cached, Lit.version) # Str(CACHE_VERSION)
    THEN Returns(Undefined)
    ELSE IF IsExpired(cached, t) THEN Returns(Undefined)
    ELSE LET queries == Get(cached, Lit.queries) IN
         CASE queries.t \in {"undefined", "null"} -> Throws   \* Object.entries
           [] queries.t \in {"number", "boolean"} -> Returns([queries |-> <<>>])
           [] \E i \in 1..Len(queries.v) : ~JsonParse(queries.v[i].k).ok -> Throws
           [] OTHER -> Returns([queries |->
                  [i \in 1..Len(queries.v) |-> DeserializedQuery(queries.v[i])]])

----------------------------------------------------------------------------
(* localStorage: a set of entries [k |-> key, v |-> string] *)

HasItem(store, key) == \E e \in store : e.k = key
\* getItem: the string, or null.
GetItem(store, key) ==
    IF HasItem(store, key) THEN Str((CHOOSE e \in store : e.k = key).v) ELSE Null
RemoveItem(store, key) == {e \in store : e.k # key}
\* setItem; fails: this call throws (quota exceeded) and stores nothing.
SetItem(store, key, value, fails) ==
    IF fails THEN [threw |-> TRUE, store |-> store]
    ELSE [threw |-> FALSE, store |-> RemoveItem(store, key) \cup {[k |-> key, v |-> value]}]

----------------------------------------------------------------------------
(* queryPersistence.js: saveToStorage, loadFromStorage and their helpers *)

\* b.dataUpdatedAt - a.dataUpdatedAt of the sort comparator.
UpdatedAt(entry) == Get(entry.v, Lit.dataUpdatedAt).v

\* Array.prototype.sort with that comparator: stable, most recent first.
RECURSIVE SortByUpdatedAt(_)
SortByUpdatedAt(entries) ==
    IF entries = <<>> THEN <<>>
    ELSE LET last == entries[Len(entries)]
             init == SortByUpdatedAt(SubSeq(entries, 1, Len(entries) - 1))
             \* last goes after every entry that is at least as recent
             n == Cardinality({i \in 1..Len(init) : UpdatedAt(init[i]) >= UpdatedAt(last)})
         IN  SubSeq(init, 1, n) \o <<last>> \o SubSeq(init, n + 1, Len(init))

CleanupLargeCache(data) ==
    LET queries == SortByUpdatedAt(Get(data, Lit.queries).v)
        keepCount == Len(queries) \div 2          \* Math.floor(length * 0.5)
    IN  Put(data, Lit.queries, Obj(SubSeq(queries, 1, keepCount)))

CleanupStorageAnyCache(store) == {e \in store : ~StartsWith(e.k, CACHE_KEY)}

CleanupStorage(store) == {e \in store : ~StartsWith(e.k, OldCachePrefix)}

\* The outcome of a saveToStorage call: the storage it leaves, whether it
\* threw, the texts it passed to setItem (in order, failed calls included),
\* the texts setItem stored, the storage as the retry found it (after
\* cleanupStorage), and the logger calls it made.
SaveOutcome(store, threw, setItems, written, swept, logs) ==
    [store |-> store, threw |-> threw, setItems |-> setItems, written |-> written,
     swept |-> swept, logs |-> logs]

SaveToStorageNoRetryCatch(data, store) ==
    LET serialized == JsonStringify(data)
        text == IF JsLength(serialized) > MAX_CACHE_SIZE
                THEN JsonStringify(CleanupLargeCache(data))
                ELSE serialized
        swept == CleanupStorage(store)
    IN  [fail1 \in BOOLEAN, fail2 \in BOOLEAN |->
           LET first == SetItem(store, CACHE_KEY, text, fail1)
               retry == SetItem(swept, CACHE_KEY, serialized, fail2)
           IN  IF ~first.threw
               THEN SaveOutcome(first.store, FALSE, <<text>>, <<text>>, store, <<"log">>)
               ELSE SaveOutcome(retry.store, retry.threw, <<text, serialized>>,
                                IF retry.threw THEN <<>> ELSE <<serialized>>, swept,
                                IF retry.threw THEN <<>> ELSE <<"warn">>)]

\* saveToStorage(data), as a function of what localStorage does: fail1, fail2
\* tell whether the first, the second call of setItem throws.
SaveToStorage(data, store) ==
    LET \* JSON.stringify(data): computed for dataSize and again in the catch block
        serialized == JsonStringify(data)
        \* JSON.stringify(processedData)
        text == IF JsLength(serialized) > MAX_CACHE_SIZE
                THEN JsonStringify(CleanupLargeCache(data))
                ELSE serialized
        \* warn('Cache size exceeds limit, performing cleanup')
        oversize == IF JsLength(serialized) > MAX_CACHE_SIZE THEN <<"warn">> ELSE <<>>
        swept == CleanupStorage(store)
    IN  [fail1 \in BOOLEAN, fail2 \in BOOLEAN |->
           LET first == SetItem(store, CACHE_KEY, text, fail1)
               \* the catch block: warn, cleanupStorage, setItem once more
               retry == SetItem(swept, CACHE_KEY, serialized, fail2)
           IN  IF ~first.threw
               THEN SaveOutcome(first.store, FALSE, <<text>>, <<text>>, store,
                                oversize \o <<"log">>)
               ELSE IF ~retry.threw
               THEN SaveOutcome(retry.store, FALSE, <<text, serialized>>, <<serialized>>,
                                swept, oversize \o <<"warn">>)
               \* the inner catch block: logError
               ELSE SaveOutcome(retry.store, FALSE, <<text, serialized>>, <<>>, swept,
                                oversize \o <<"warn", "error">>)]

\* loadFromStorage(): what it returns, the storage it leaves, its logger calls.
LoadFromStorage(store) ==
    LET cached == GetItem(store, CACHE_KEY) IN
    IF ~Truthy(cached) THEN [ret |-> Undefined, store |-> store, logs |-> <<>>]
    ELSE LET parsed == JsonParse(cached.v) IN
         IF parsed.ok
         THEN [ret |-> parsed.val, store |-> store, logs |-> <<"log">>]
         ELSE [ret |-> Undefined, store |-> RemoveItem(store, CACHE_KEY),
               logs |-> <<"warn">>]

----------------------------------------------------------------------------
(* queryPersistence.js: throttledSave and the timers it uses *)

DEBOUNCE_MS == 1000

\* clearTimeout(id): no effect when no pending timer has that id.
ClearTimeout(ts, id) == {tm \in ts : tm.id # id}

\* The handle setTimeout returns: a positive integer no pending timer has.
FreshTimerId(ts) ==
    CHOOSE id \in 1..(Cardinality(ts) + 1) :
        /\ \A tm \in ts : tm.id # id
        /\ \A other \in 1..(id - 1) : \E tm \in ts : tm.id = other

\* The timers and the handle one throttledSave call at time t leaves.
ThrottledSaveNoClear(ts, handle, t) ==
    LET id == FreshTimerId(ts) IN
    [timers |-> ts \cup {[id |-> id, due |-> t + DEBOUNCE_MS]}, saveTimeout |-> id]

ThrottledSave(ts, handle, t) ==
    LET cleared == ClearTimeout(ts, handle)
        id == FreshTimerId(cleared)
    IN  [timers |-> cleared \cup {[id |-> id, due |-> t + DEBOUNCE_MS]},
         saveTimeout |-> id]

\* n throttledSave calls in a row, all at time t.
RECURSIVE ThrottledSaveTimes(_, _, _, _)
ThrottledSaveTimes(ts, handle, t, n) ==
    IF n = 0 THEN [timers |-> ts, saveTimeout |-> handle]
    ELSE LET one == ThrottledSave(ts, handle, t)
         IN  ThrottledSaveTimes(one.timers, one.saveTimeout, t, n - 1)

----------------------------------------------------------------------------
(* The query client (react-query), as far as the persistence layer uses it *)

QueryState(status, data, updatedAt, fetchStatus) ==
    Obj(<< [k |-> Lit.data,              v |-> data],
           [k |-> Lit.dataUpdateCount,   v |-> Num(1)],
           [k |-> Lit.dataUpdatedAt,     v |-> Num(updatedAt)],
           [k |-> Lit.errorUpdateCount,  v |-> Num(0)],
           [k |-> Lit.errorUpdatedAt,    v |-> Num(0)],
           [k |-> Lit.fetchFailureCount, v |-> Num(0)],
           [k |-> Lit.isInvalidated,     v |-> Bool(FALSE)],
           [k |-> Lit.status,            v |-> Str(status)],
           [k |-> Lit.fetchStatus,       v |-> Str(fetchStatus)] >>)

Query(queryKey, state) == [queryKey |-> queryKey, state |-> state]

\* The cache holds one query per key: a new query is added at the end, an
\* existing one is updated in place.
Upsert(queries, query) ==
    IF \E i \in 1..Len(queries) : queries[i].queryKey = query.queryKey
    THEN [i \in 1..Len(queries) |->
            IF queries[i].queryKey = query.queryKey THEN query ELSE queries[i]]
    ELSE Append(queries, query)

\* The unwrapped queryClient.setQueryData(queryKey, data, {updatedAt}) at
\* time t: no change when data is undefined; the data is stamped with
\* updatedAt, or with the time of the call when no updatedAt is given.
SetQueryData(queries, queryKey, data, updatedAt, t) ==
    IF data = Undefined THEN queries
    ELSE Upsert(queries,
                Query(queryKey,
                      QueryState(Lit.success, data,
                                 IF updatedAt.t = "number" THEN updatedAt.v ELSE t,
                                 Lit.idle)))

----------------------------------------------------------------------------
(* Bounds and input domains *)

MaxQueries == 2

\* Date.now() at the start: late enough for a snapshot to have expired.
StartTime == CACHE_EXPIRY + 2 * DEBOUNCE_MS

SampleKeys ==
    { Arr(<<Str(Lit.photos), Num(1)>>),
      Arr(<<Str(Lit.photoInfo), Str(<<"7">>)>>),
      Arr(<<Str(Lit.slideshowPhotos)>>),
      Arr(<<Str(Lit.prefetchedImage), Num(1)>>),
      Arr(<<Str(Lit.user)>>),
      Arr(<<Str(<<"x">>), Str(Lit.photos)>>),
      Arr(<<>>) }

SampleStates ==
    { QueryState(Lit.success, Str(<<"a">>), StartTime - 1, Lit.idle),
      QueryState(Lit.success, Arr(<<>>), StartTime - 2, Lit.fetching),
      QueryState(Lit.success, Null, StartTime - 3, Lit.idle),
      QueryState(Lit.success, Num(0), StartTime - 3, Lit.idle),
      QueryState(Lit.error, Undefined, 0, Lit.idle),
      QueryState(Lit.loading, Str(<<"a">>), StartTime - 4, Lit.fetching) }

\* The queries of the sample that serialize keeps.
PersistedKeys == {key \in SampleKeys : ShouldPersistQuery(key)}
PersistedStates ==
    {state \in SampleStates : /\ Get(state, Lit.status) = Str(Lit.success)
                              /\ Truthy(Get(state, Lit.data))}

\* The hash under which the query cache files a query.
QueryHash(queryKey) == JsonStringify(queryKey)
Cached(queries, queryKey) ==
    \E i \in 1..Len(queries) : QueryHash(queries[i].queryKey) = QueryHash(queryKey)

NoCall == [op |-> "none"]
\* Counters of what has happened: throttledSave calls made directly, the
\* bursts they form and the time of the last one, saves made by the timer,
\* updates of the query cache, beforeunload events.
NoHistory == [calls |-> 0, bursts |-> 0, lastCallAt |-> 0, saves |-> 0,
              events |-> 0, unloads |-> 0]

\* usePersistence before AppContent is mounted.
NoHook == [mounted |-> FALSE, instance |-> 0, isHydrated |-> FALSE,
           effectPending |-> FALSE, cleanup |-> 0, stableOptions |-> FALSE,
           renders |-> 0]

\* photoService before fetchPhotos is called.
NoService == [pc |-> "idle", page |-> 0, entry |-> 0, retryCount |-> 0,
              fetchCalls |-> 0, outcomes |-> <<>>, deadline |-> 0,
              result |-> Undefined, error |-> Undefined]

\* PhotoGallery at its first render: the first page is being fetched, and
\* the scroll handler it registers has seen the flags of that render.
NoGallery ==
    [pages |-> <<>>, isLoading |-> TRUE, hasNextPage |-> FALSE,
     isFetchingNextPage |-> FALSE,
     seen |-> [hasNextPage |-> FALSE, isFetchingNextPage |-> FALSE],
     stale |-> FALSE, requests |-> 0, last |-> [op |-> "none"],
     invalidPhotos |-> {}, columnCount |-> 4, columns |-> <<<<>>, <<>>, <<>>, <<>>>>,
     imageErrors |-> 0]

\* No photo is selected: PhotoModal is not mounted and never was.
NoModal ==
    [open |-> FALSE, instance |-> 0, isHighResLoaded |-> FALSE,
     isLoadingFullSize |-> FALSE, showToast |-> FALSE, currentImageUrl |-> "cached",
     images |-> <<>>, closeTimers |-> {}, shown |-> {}, timerCloses |-> {},
     closes |-> 0, events |-> 0, last |-> [op |-> "none"]]

\* ErrorBoundary before it is mounted.
NoBoundary ==
    [mounted |-> FALSE, hasError |-> FALSE, error |-> Null, errorInfo |-> Null,
     fallbackMessage |-> Undefined, children |-> 0, output |-> [kind |-> "none"],
     logged |-> <<>>, caught |-> 0, renders |-> 0]

\* The service worker with an empty cache and no fetch event handled.
NoWorker == [cache |-> {}, pending |-> {}, events |-> 0, fetches |-> 0, log |-> <<>>]

\* No component is mounted and no request is in progress.
ComponentsIdle ==
    /\ hook = NoHook
    /\ svc = NoService
    /\ gallery = NoGallery
    /\ modal = NoModal
    /\ boundary = NoBoundary
    /\ sw = NoWorker

\* Nothing of initializePersistence or throttledSave has run.
Idle ==
    /\ ComponentsIdle
    /\ timers = {}
    /\ saveTimeout = 0
    /\ wrapDepth = 0
    /\ subs = {}
    /\ listeners = {}
    /\ inits = 0
    /\ hist = NoHistory

lifecycle == <<timers, saveTimeout, wrapDepth, subs, listeners, inits, hist>>

----------------------------------------------------------------------------
(* serialize on its own *)

InitSerialize ==
    /\ now \in {StartTime, StartTime + DEBOUNCE_MS}
    /\ cache = <<>>
    /\ storage = {}
    /\ call = NoCall
    /\ Idle

\* A query enters the cache.
AddQueryFrom(keys, states) ==
    /\ Len(cache) < MaxQueries
    /\ \E key \in keys, state \in states :
          /\ ~Cached(cache, key)
          /\ cache' = Append(cache, Query(key, state))
    /\ call' = NoCall
    /\ UNCHANGED <<components, now, storage, lifecycle>>

AddQuery == AddQueryFrom(SampleKeys, SampleStates)

SerializeCall ==
    /\ call' = [op |-> "serialize", queries |-> cache, at |-> now,
                ret |-> Serialize(cache, now)]
    /\ UNCHANGED <<components, now, cache, storage, lifecycle>>

NextSerialize == AddQuery \/ SerializeCall

SpecSerialize == InitSerialize /\ [][NextSerialize]_vars

\* What C7 says of one query: successful, with truthy data, of a persisted type.
C7_Qualifies(query) ==
    /\ Get(query.state, Lit.status) = Str(Lit.success)
    /\ Truthy(Get(query.state, Lit.data))
    /\ Len(query.queryKey.v) >= 1
    /\ query.queryKey.v[1] \in {Str(Lit.photos), Str(Lit.photoInfo), Str(Lit.slideshowPhotos)}

C7_Fields ==
    { Lit.data, Lit.dataUpdateCount, Lit.dataUpdatedAt, Lit.errorUpdateCount,
      Lit.errorUpdatedAt, Lit.fetchFailureCount, Lit.isInvalidated, Lit.status }

\* C7: serialize(client) persists a cached query if and only if its status is
\* 'success', its data is truthy and the first element of its queryKey is
\* 'photos', 'photoInfo' or 'slideshowPhotos'; each persisted entry is stored
\* under JSON.stringify(queryKey), carries the query's state with fetchStatus
\* forced to 'idle', and the result has version CACHE_VERSION and timestamp now.
C7_SerializePersists ==
    call.op = "serialize" =>
        LET out == Get(call.ret, Lit.queries) IN
        /\ Get(call.ret, Lit.version) = Str(CACHE_VERSION)
        /\ Get(call.ret, Lit.timestamp) = Num(call.at)
        /\ \A i \in 1..Len(call.queries) :
              LET query == call.queries[i]
                  entry == Get(out, JsonStringify(query.queryKey))
              IN  /\ HasOwn(out, JsonStringify(query.queryKey)) <=> C7_Qualifies(query)
                  /\ C7_Qualifies(query) =>
                        /\ \A f \in C7_Fields : Get(entry, f) = Get(query.state, f)
                        /\ Get(entry, Lit.fetchStatus) = Str(Lit.idle)
        /\ \A j \in 1..Len(out.v) :
              \E i \in 1..Len(call.queries) :
                  out.v[j].k = JsonStringify(call.queries[i].queryKey)

\* A serialize call that persisted one query, whose fetchStatus was 'fetching',
\* and left another out.
C7_Witness ==
    /\ call.op = "serialize"
    /\ Len(Get(call.ret, Lit.queries).v) = 1
    /\ Len(call.queries) = 2
    /\ \E i \in 1..2 : /\ C7_Qualifies(call.queries[i])
                       /\ Get(call.queries[i].state, Lit.fetchStatus) = Str(Lit.fetching)

----------------------------------------------------------------------------
(* deserialize on its own *)

\* The version string of an earlier release, as in the tests.
OldVersion == <<"0",".","9",".","0">>
\* A property name that is not JSON, as in the tests.
MalformedKey == <<"i","n","v","a","l","i","d","-","j","s","o","n">>

\* A snapshot with one more entry, under a key that JSON.parse rejects.
WithMalformedKey(snapshot) ==
    Put(snapshot, Lit.queries,
        Put(Get(snapshot, Lit.queries), MalformedKey,
            PersistedState(QueryState(Lit.success, Str(<<"a">>), 0, Lit.idle))))

\* The ages at which a snapshot is looked at: fresh, exactly 24 h, just over.
SampleAges == {DEBOUNCE_MS, CACHE_EXPIRY, CACHE_EXPIRY + 1}

\* What deserialize may be handed at time t when the snapshots were made of
\* the queries given.
CachedInputs(queries, t) ==
    LET snapshots == {Serialize(queries, t - age) : age \in SampleAges} IN
    {Undefined, Null}
        \cup snapshots
        \cup {Put(s, Lit.version, Str(OldVersion)) : s \in snapshots}
        \cup {WithMalformedKey(s) : s \in snapshots}

DeserializeCall ==
    /\ \E cached \in CachedInputs(cache, now) :
          LET out == Deserialize(cached, now) IN
          call' = [op |-> "deserialize", cached |-> cached, at |-> now,
                   threw |-> out.threw, ret |-> out.ret]
    /\ UNCHANGED <<components, now, cache, storage, lifecycle>>

\* A query that serialize keeps enters the cache.
AddPersistedQuery == AddQueryFrom(PersistedKeys, PersistedStates)

NextDeserialize == AddPersistedQuery \/ DeserializeCall

SpecDeserialize == InitSerialize /\ [][NextDeserialize]_vars

\* The three reasons C2 gives for rejecting a snapshot at time t.
C2_Rejected(cached, t) ==
    \/ cached \in {Null, Undefined}
    \/ Get(cached, Lit.version) # Str(CACHE_VERSION)
    \/ t - Get(cached, Lit.timestamp).v > CACHE_EXPIRY

C2_KeysAreJson(cached) ==
    \A i \in 1..Len(Get(cached, Lit.queries).v) :
        JsonParse(Get(cached, Lit.queries).v[i].k).ok

\* C2: deserialize(cached) returns undefined exactly when cached is null or
\* undefined, its version differs from CACHE_VERSION, or it is more than
\* CACHE_EXPIRY old (exactly 24 h old is still accepted); otherwise, when the
\* keys are valid JSON, it returns one query per stored entry, in order, with
\* queryKey = JSON.parse(key), queryHash = key and state = the stored value.
C2_DeserializeAccepts ==
    call.op = "deserialize" =>
        LET cached == call.cached
            rejected == C2_Rejected(cached, call.at)
        IN  /\ (~call.threw /\ call.ret = Undefined) <=> rejected
            /\ (~rejected /\ C2_KeysAreJson(cached)) =>
                  LET entries == Get(cached, Lit.queries).v IN
                  /\ ~call.threw
                  /\ Len(call.ret.queries) = Len(entries)
                  /\ \A i \in 1..Len(entries) :
                        /\ call.ret.queries[i].queryKey = JsonParse(entries[i].k).val
                        /\ call.ret.queries[i].queryHash = entries[i].k
                        /\ call.ret.queries[i].state = entries[i].v

\* A snapshot of two queries, exactly 24 h old, was accepted, and the first
\* key came back as the array it was made of.
C2_Witness ==
    /\ call.op = "deserialize"
    /\ call.cached \notin {Null, Undefined}
    /\ call.at - Get(call.cached, Lit.timestamp).v = CACHE_EXPIRY
    /\ ~call.threw
    /\ call.ret # Undefined
    /\ Len(call.ret.queries) = 2
    /\ call.ret.queries[1].queryKey \in SampleKeys

----------------------------------------------------------------------------
(* saveToStorage and loadFromStorage on their own *)

MaxSizedQueries == 3

\* Other keys of localStorage, as in the tests, and one that only nearly
\* starts with the prefix cleanupStorage looks for.
OldCacheKey1 == OldCachePrefix \o <<"1">>
OldCacheKey2 == OldCachePrefix \o <<"2">>
NearlyOldKey == SubSeq(OldCachePrefix, 1, Len(OldCachePrefix) - 1)
OtherKey == <<"o","t","h","e","r","-","k","e","y">>

Attic ==
    { [k |-> OldCacheKey1, v |-> <<"x">>], [k |-> OldCacheKey2, v |-> <<"y">>],
      [k |-> OtherKey, v |-> <<"z">>], [k |-> NearlyOldKey, v |-> <<"w">>] }

\* What localStorage may hold when the page loads.
SampleStores ==
    { {},
      Attic,
      Attic \cup {[k |-> CACHE_KEY, v |-> MalformedKey]},
      {[k |-> CACHE_KEY, v |-> <<>>]},
      {[k |-> CACHE_KEY, v |-> <<"n","u","l","l">>]} }

\* Query states with data of one, of ChunkWidth and of twice ChunkWidth
\* characters; two of them were updated at the same time.
SizedStates ==
    { QueryState(Lit.success, Str(<<"a">>), StartTime - 1, Lit.idle),
      QueryState(Lit.success, Str(<<Chunk>>), StartTime - 2, Lit.idle),
      QueryState(Lit.success, Str(<<Chunk>>), StartTime - 1, Lit.idle),
      QueryState(Lit.success, Str(<<Chunk, Chunk>>), StartTime - 3, Lit.idle) }

InitStorage ==
    /\ now = StartTime
    /\ cache = <<>>
    /\ storage \in SampleStores
    /\ call = NoCall
    /\ Idle

\* The n-th page of photos enters the cache, before the calls observed.
AddSizedQuery ==
    /\ call = NoCall
    /\ Len(cache) < MaxSizedQueries
    /\ \E state \in SizedStates :
          cache' = Append(cache, Query(Arr(<<Str(Lit.photos), Num(Len(cache) + 1)>>), state))
    /\ UNCHANGED <<components, now, storage, call, lifecycle>>

\* saveToStorage(serialize(client)), with each setItem failing or not.
SaveCall ==
    /\ \E attempt \in
             (LET data == Serialize(cache, now)
                  outcomes == SaveToStorage(data, storage)
              IN  {[data |-> data, fail1 |-> fail1, fail2 |-> fail2,
                    out |-> outcomes[fail1, fail2]] :
                     fail1 \in BOOLEAN, fail2 \in BOOLEAN}) :
          /\ storage' = attempt.out.store
          /\ call' = [op |-> "saveToStorage", data |-> attempt.data,
                      before |-> storage, fail1 |-> attempt.fail1,
                      fail2 |-> attempt.fail2,
                      threw |-> attempt.out.threw,
                      setItems |-> attempt.out.setItems,
                      written |-> attempt.out.written,
                      swept |-> attempt.out.swept, logs |-> attempt.out.logs]
    /\ UNCHANGED <<components, now, cache, lifecycle>>

LoadCall ==
    /\ \E out \in {LoadFromStorage(storage)} :
          /\ storage' = out.store
          /\ call' = [op |-> "loadFromStorage", before |-> storage, ret |-> out.ret,
                      logs |-> out.logs]
    /\ UNCHANGED <<components, now, cache, lifecycle>>

NextStorage == AddSizedQuery \/ SaveCall \/ LoadCall

SpecStorage == InitStorage /\ [][NextStorage]_vars

\* The entries of a snapshot's queries object.
C3_Entries(snapshot) == Get(snapshot, Lit.queries).v

C3_IsRecentHalf(data, kept) ==
    LET all == C3_Entries(data)
        some == C3_Entries(kept)
        keptKeys == {some[i].k : i \in 1..Len(some)}
    IN  /\ Len(some) = Len(all) \div 2
        /\ Cardinality(keptKeys) = Len(some)
        /\ \A i \in 1..Len(some) : \E j \in 1..Len(all) : some[i] = all[j]
        /\ \A i \in 1..Len(some) : \A j \in 1..Len(all) :
              all[j].k \notin keptKeys => UpdatedAt(some[i]) >= UpdatedAt(all[j])
        /\ Get(kept, Lit.version) = Get(data, Lit.version)
        /\ Get(kept, Lit.timestamp) = Get(data, Lit.timestamp)

\* C3: when the serialized snapshot passed to saveToStorage is longer than
\* MAX_CACHE_SIZE, the snapshot written keeps exactly floor(n/2) of its n
\* queries, the most recently updated ones, with version and timestamp
\* unchanged.
C3_OversizeWritesRecentHalf ==
    (call.op = "saveToStorage" /\ JsLength(JsonStringify(call.data)) > MAX_CACHE_SIZE)
    => \A i \in 1..Len(call.written) :
          C3_IsRecentHalf(call.data, JsonParse(call.written[i]).val)

\* C4: every value that saveToStorage writes under 'photo-gallery-cache' is at
\* most MAX_CACHE_SIZE long, whatever the snapshot and whichever setItem
\* calls fail.
C4_WrittenWithinLimit ==
    call.op = "saveToStorage"
    => \A i \in 1..Len(call.written) : JsLength(call.written[i]) <= MAX_CACHE_SIZE

\* C5: saveToStorage never throws, whatever setItem does; a failure of the
\* first write ends in a warning, a failure of the retry in a logged error.
C5_SaveNeverThrows ==
    call.op = "saveToStorage"
    => /\ ~call.threw
       /\ call.fail1 => \E i \in 1..Len(call.logs) : call.logs[i] = "warn"
       /\ (call.fail1 /\ call.fail2) =>
             (call.logs # <<>> /\ call.logs[Len(call.logs)] = "error")

C5_Witness ==
    /\ call.op = "saveToStorage"
    /\ call.fail1 /\ call.fail2
    /\ Len(call.setItems) = 2 /\ call.written = <<>>
    /\ ~call.threw

C6_OldPrefix ==
    <<"p","h","o","t","o","-","g","a","l","l","e","r","y","-","c","a","c","h","e",
      "-","o","l","d","-">>

C6_IsOld(key) ==
    Len(key) >= Len(C6_OldPrefix) /\ SubSeq(key, 1, Len(C6_OldPrefix)) = C6_OldPrefix

C6_Others(store) == {e \in store : e.k # CACHE_KEY}

\* C6: when the first setItem of a saveToStorage call throws, exactly the keys
\* that start with 'photo-gallery-cache-old-' are removed before setItem is
\* retried, exactly once; every other key is left as it was; no call makes
\* more than two setItem calls.
C6_RetryAfterCleanup ==
    call.op = "saveToStorage"
    => /\ Len(call.setItems) <= 2
       /\ ~call.fail1 => (Len(call.setItems) = 1 /\ C6_Others(storage) = C6_Others(call.before))
       /\ call.fail1 =>
             /\ Len(call.setItems) = 2
             /\ call.swept = {e \in call.before : ~C6_IsOld(e.k)}
             /\ C6_Others(storage) = C6_Others(call.swept)
             /\ call.fail2 => storage = call.swept

C6_Witness ==
    /\ call.op = "saveToStorage"
    /\ call.fail1
    /\ \E e \in call.before : C6_IsOld(e.k)
    /\ \E e \in call.before : e.k = NearlyOldKey
    /\ \E e \in call.before : e.k = CACHE_KEY
    /\ \E e \in storage : e.k = NearlyOldKey
    /\ ~\E e \in storage : C6_IsOld(e.k)
    /\ Len(call.setItems) = 2

\* C8: loadFromStorage returns undefined when there is no entry under
\* 'photo-gallery-cache'; when the stored string is not valid JSON it returns
\* undefined and removes the entry; when it is valid JSON it returns the
\* parsed value and leaves storage unchanged.
C8_LoadFromStorage ==
    call.op = "loadFromStorage"
    => LET entries == {e \in call.before : e.k = CACHE_KEY} IN
       /\ entries = {} => call.ret = Undefined
       /\ \A e \in entries :
             LET parsed == JsonParse(e.v) IN
             /\ ~parsed.ok => (call.ret = Undefined /\ ~HasItem(storage, CACHE_KEY))
             /\ parsed.ok => (call.ret = parsed.val /\ storage = call.before)

----------------------------------------------------------------------------
(* The clock and the save timer.  A timer's callback runs when the clock    *)
(* reaches its due time, before anything else that happens at that time.   *)

TickSteps == {DEBOUNCE_MS - 1, DEBOUNCE_MS}

NoTimerDue == \A tm \in timers : tm.due > now

Earlier(a, b) == IF a < b THEN a ELSE b

\* Time passes, up to the next due time and up to the horizon at most.
Advance(horizon) ==
    /\ NoTimerDue
    /\ \E d \in TickSteps :
          /\ now + d <= horizon
          /\ now' = IF timers = {} THEN now + d
                    ELSE Earlier(now + d, CHOOSE due \in {tm.due : tm \in timers} :
                                             \A tm \in timers : due <= tm.due)
    /\ call' = NoCall
    /\ UNCHANGED <<components, cache, storage, lifecycle>>

\* The callback throttledSave gave to setTimeout: serialize the client and
\* save, with each setItem failing or not.
TimerFire ==
    /\ \E tm \in timers :
          /\ tm.due <= now
          /\ \A other \in timers : other.due >= tm.due
          /\ timers' = timers \ {tm}
          /\ \E attempt \in
                   (LET data == Serialize(cache, now)
                        outcomes == SaveToStorage(data, storage)
                    IN  {[data |-> data, out |-> outcomes[fail1, fail2]] :
                           fail1 \in BOOLEAN, fail2 \in BOOLEAN}) :
                /\ storage' = attempt.out.store
                /\ call' = [op |-> "timer", at |-> now, due |-> tm.due,
                            data |-> attempt.data, written |-> attempt.out.written]
    /\ hist' = [hist EXCEPT !.saves = @ + 1]
    /\ UNCHANGED <<components, now, cache, saveTimeout, wrapDepth, subs, listeners, inits>>

----------------------------------------------------------------------------
(* throttledSave on its own *)

MaxCalls == 4
MaxBurstSeconds == 2

InitThrottle ==
    /\ now = StartTime
    /\ cache = <<>>
    /\ storage = {}
    /\ call = NoCall
    /\ Idle

\* throttledSave(client), called at time now.
ThrottledSaveCall ==
    /\ NoTimerDue
    /\ hist.calls < MaxCalls
    /\ \E scheduled \in {ThrottledSave(timers, saveTimeout, now)} :
          /\ timers' = scheduled.timers
          /\ saveTimeout' = scheduled.saveTimeout
    /\ hist' = [hist EXCEPT !.calls = @ + 1,
                            !.bursts = IF hist.calls = 0 \/ now - hist.lastCallAt >= DEBOUNCE_MS
                                       THEN @ + 1 ELSE @,
                            !.lastCallAt = now]
    /\ call' = [op |-> "throttledSave", at |-> now]
    /\ UNCHANGED <<components, now, cache, storage, wrapDepth, subs, listeners, inits>>

\* The first page of photos arrives while saves are pending or not.
AddPhotosQuery == AddQueryFrom({Arr(<<Str(Lit.photos), Num(1)>>)}, PersistedStates)

BurstTick == Advance(StartTime + MaxBurstSeconds * DEBOUNCE_MS)

NextThrottle == AddPhotosQuery \/ ThrottledSaveCall \/ BurstTick \/ TimerFire

SpecThrottle == InitThrottle /\ [][NextThrottle]_vars

C1_BurstsSaved ==
    \* every burst has been saved once, or its save is pending
    /\ hist.saves + Cardinality(timers) = hist.bursts
    /\ Cardinality(timers) <= 1
    /\ \A tm \in timers : tm.due = hist.lastCallAt + 1000
    \* the save runs 1000 ms after the last call, on the cache as it then is
    /\ call.op = "timer" =>
          /\ call.at = hist.lastCallAt + 1000
          /\ call.data = Serialize(cache, now)

C1_NoSaveInCall ==
    ThrottledSaveCall => (storage' = storage /\ hist'.saves = hist.saves)

\* C1: throttledSave debounces: each call cancels the pending save timer and
\* schedules a new one, so a burst of calls less than 1000 ms apart leads to
\* exactly one serialize + saveToStorage, 1000 ms after its last call, and a
\* call itself never saves.
C1_Debounce == [](C1_BurstsSaved) /\ [][C1_NoSaveInCall]_vars

C1_Witness ==
    /\ call.op = "timer"
    /\ hist.bursts = 2
    /\ hist.saves = 2
    /\ hist.calls = MaxCalls
    /\ cache # <<>>

----------------------------------------------------------------------------
(* initializePersistence, the cleanup function it returns, the handlers it  *)
(* installs, and the application around them                                *)

MaxInits == 1
MaxEvents == 1
MaxUnloads == 1
MaxSeconds == 1

\* The photos that were in the cache when the stored snapshots were made.
StoredQueries ==
    << Query(Arr(<<Str(Lit.photos), Num(1)>>),
             QueryState(Lit.success, Str(<<"a">>), StartTime - CACHE_EXPIRY - 1, Lit.idle)),
       Query(Arr(<<Str(Lit.photoInfo), Str(<<"7">>)>>),
             QueryState(Lit.success, Arr(<<Num(1)>>), StartTime - DEBOUNCE_MS, Lit.idle)) >>

\* Snapshots an earlier visit may have left: fresh, exactly 24 h old at the
\* start (and expired from then on), of another version, without queries,
\* with a key that is not JSON.
StoredSnapshots ==
    { Serialize(StoredQueries, StartTime - DEBOUNCE_MS),
      Serialize(StoredQueries, StartTime - CACHE_EXPIRY),
      Put(Serialize(StoredQueries, StartTime - DEBOUNCE_MS), Lit.version, Str(OldVersion)),
      Serialize(<<>>, StartTime - DEBOUNCE_MS),
      WithMalformedKey(Serialize(StoredQueries, StartTime - DEBOUNCE_MS)) }

\* What localStorage holds under CACHE_KEY when the page loads: nothing, a
\* snapshot, or something that is not a snapshot.
StoredTexts ==
    {JsonStringify(snapshot) : snapshot \in StoredSnapshots}
        \cup {MalformedKey}

Init ==
    /\ now = StartTime
    /\ cache = <<>>
    /\ storage \in {{}} \cup {{[k |-> CACHE_KEY, v |-> text]} : text \in StoredTexts}
    /\ call = NoCall
    /\ Idle

\* The arguments of the setQueryData calls of the hydration loop.
HydrateCallsNoUpdatedAt(deserialized) ==
    [i \in 1..Len(deserialized.queries) |->
        [queryKey |-> deserialized.queries[i].queryKey,
         data |-> Get(deserialized.queries[i].state, Lit.data),
         updatedAt |-> Undefined]]

HydrateCalls(deserialized) ==
    [i \in 1..Len(deserialized.queries) |->
        [queryKey |-> deserialized.queries[i].queryKey,
         data |-> Get(deserialized.queries[i].state, Lit.data),
         updatedAt |-> Get(deserialized.queries[i].state, Lit.dataUpdatedAt)]]

\* The cache after setQueryData calls with these arguments, in order.
RECURSIVE SetAll(_, _, _)
SetAll(queries, calls, t) ==
    IF calls = <<>> THEN queries
    ELSE SetAll(SetQueryData(queries, calls[1].queryKey, calls[1].data,
                             calls[1].updatedAt, t),
                Tail(calls), t)

\* initializePersistence(queryClient) at time t, called for the id-th time:
\* what it leaves behind, and whether it threw.
InitializePersistenceOutcome(id, store, queries, ts, handle, depth, subscribers, ls, t) ==
    LET loaded == LoadFromStorage(store)
        deserialized == IF Truthy(loaded.ret) THEN Deserialize(loaded.ret, t)
                        ELSE Returns(Undefined)
        hydrates == ~deserialized.threw /\ deserialized.ret # Undefined
        calls == IF hydrates THEN HydrateCalls(deserialized.ret) ELSE <<>>
        wrapped == IF hydrates THEN depth + 1 ELSE depth
        \* each setQueryData notifies the subscribers, then every wrapper
        \* around it calls throttledSave
        scheduled == ThrottledSaveTimes(ts, handle, t,
                                        Len(calls) * (Cardinality(subscribers) + wrapped))
    IN  IF deserialized.threw
        THEN [threw |-> TRUE, store |-> loaded.store, queries |-> queries, timers |-> ts,
              saveTimeout |-> handle, wrapDepth |-> depth, subs |-> subscribers,
              listeners |-> ls, calls |-> <<>>]
        ELSE [threw |-> FALSE, store |-> loaded.store, queries |-> SetAll(queries, calls, t),
              timers |-> scheduled.timers, saveTimeout |-> scheduled.saveTimeout,
              wrapDepth |-> wrapped, subs |-> subscribers \cup {id},
              listeners |-> ls \cup {id}, calls |-> calls]

InitializePersistence ==
    /\ NoTimerDue
    /\ inits < MaxInits
    /\ \E out \in {InitializePersistenceOutcome(inits + 1, storage, cache, timers,
                                                saveTimeout, wrapDepth, subs, listeners,
                                                now)} :
          /\ storage' = out.store
          /\ cache' = out.queries
          /\ timers' = out.timers
          /\ saveTimeout' = out.saveTimeout
          /\ wrapDepth' = out.wrapDepth
          /\ subs' = out.subs
          /\ listeners' = out.listeners
          /\ inits' = IF out.threw THEN inits ELSE inits + 1
          /\ call' = [op |-> "initializePersistence", id |-> inits + 1, at |-> now,
                      stored |-> GetItem(storage, CACHE_KEY), threw |-> out.threw,
                      setQueryData |-> out.calls]
    /\ UNCHANGED <<components, now, hist>>

\* The cleanup function of the id-th initializePersistence.
CleanupKeepsTimer(id, ts, handle, subscribers, ls) ==
    [timers |-> ts, subs |-> subscribers \ {id}, listeners |-> ls \ {id}]

CleanupOutcome(id, ts, handle, subscribers, ls) ==
    [timers |-> ClearTimeout(ts, handle), subs |-> subscribers \ {id},
     listeners |-> ls \ {id}]

Cleanup ==
    /\ NoTimerDue
    /\ \E id \in 1..inits :
          \E out \in {CleanupOutcome(id, timers, saveTimeout, subs, listeners)} :
             /\ timers' = out.timers
             /\ subs' = out.subs
             /\ listeners' = out.listeners
             /\ call' = [op |-> "cleanup", id |-> id, pending |-> timers,
                         subscribed |-> id \in subs]
    /\ UNCHANGED <<components, now, cache, storage, saveTimeout, wrapDepth, inits, hist>>

\* Data the application puts into the cache.
AppKeys == {Arr(<<Str(Lit.photos), Num(1)>>)}
AppData == {Str(<<"b">>)}

\* The application calls queryClient.setQueryData(queryKey, data): the cache
\* changes and notifies its subscribers, each of which calls throttledSave,
\* and so does every wrapper initializePersistence has put around it.
SetQueryDataCall ==
    /\ NoTimerDue
    /\ hist.events < MaxEvents
    /\ \E queryKey \in AppKeys, data \in AppData :
          /\ cache' = SetQueryData(cache, queryKey, data, Undefined, now)
          /\ call' = NoCall
    /\ \E scheduled \in {ThrottledSaveTimes(timers, saveTimeout, now,
                                            Cardinality(subs) + wrapDepth)} :
          /\ timers' = scheduled.timers
          /\ saveTimeout' = scheduled.saveTimeout
    /\ hist' = [hist EXCEPT !.events = @ + 1]
    /\ UNCHANGED <<components, now, storage, wrapDepth, subs, listeners, inits>>

\* The stores n handleBeforeUnload runs in a row may leave, each setItem of
\* each run failing or not.
RECURSIVE HandlersRun(_, _, _)
HandlersRun(stores, data, n) ==
    IF n = 0 THEN stores
    ELSE HandlersRun({SaveToStorage(data, store)[fail1, fail2].store :
                         store \in stores, fail1 \in BOOLEAN, fail2 \in BOOLEAN},
                     data, n - 1)

\* handleBeforeUnload: the timers left after its clearTimeout and the
\* snapshot it passes to saveToStorage.
HandleBeforeUnloadKeepsTimer(ts, handle, queries, t) ==
    [timers |-> ts, data |-> Serialize(queries, t)]

HandleBeforeUnload(ts, handle, queries, t) ==
    [timers |-> ClearTimeout(ts, handle), data |-> Serialize(queries, t)]

\* The window fires beforeunload: every registered handleBeforeUnload clears
\* the save timer, serializes the client and saves.
BeforeUnload ==
    /\ NoTimerDue
    /\ listeners # {}
    /\ hist.unloads < MaxUnloads
    /\ \E run \in {HandleBeforeUnload(timers, saveTimeout, cache, now)} :
          /\ timers' = run.timers
          /\ \E after \in HandlersRun({storage}, run.data, Cardinality(listeners)) :
                storage' = after
          /\ call' = [op |-> "beforeunload", at |-> now, handlers |-> listeners,
                      pending |-> timers, data |-> run.data]
    /\ hist' = [hist EXCEPT !.unloads = @ + 1,
                            !.saves = @ + Cardinality(listeners)]
    /\ UNCHANGED <<components, now, cache, saveTimeout, wrapDepth, subs, listeners, inits>>

Tick == Advance(StartTime + MaxSeconds * DEBOUNCE_MS)

Next ==
    \/ InitializePersistence
    \/ Cleanup
    \/ SetQueryDataCall
    \/ BeforeUnload
    \/ Tick
    \/ TimerFire

Spec == Init /\ [][Next]_vars

\* Whether text is a snapshot of the current version, at most 24 h old at t.
C9_Accepted(stored, t) ==
    /\ stored.t = "string"
    /\ JsonParse(stored.v).ok
    /\ LET cached == JsonParse(stored.v).val IN
       /\ cached.t = "object"
       /\ Get(cached, Lit.version) = Str(CACHE_VERSION)
       /\ Get(cached, Lit.timestamp).t = "number"
       /\ t - Get(cached, Lit.timestamp).v <= CACHE_EXPIRY

C9_Entries(stored) == Get(JsonParse(stored.v).val, Lit.queries).v

C9_KeysAreJson(stored) ==
    \A i \in 1..Len(C9_Entries(stored)) : JsonParse(C9_Entries(stored)[i].k).ok

\* setQueryData(queryKey, data, {updatedAt: dataUpdatedAt}), once per stored
\* query and in their order, and the cache holds each with that time.
C9_Rehydrated ==
    LET entries == C9_Entries(call.stored) IN
    /\ Len(call.setQueryData) = Len(entries)
    /\ \A i \in 1..Len(entries) :
          /\ call.setQueryData[i].queryKey = JsonParse(entries[i].k).val
          /\ call.setQueryData[i].data = Get(entries[i].v, Lit.data)
          /\ call.setQueryData[i].updatedAt = Get(entries[i].v, Lit.dataUpdatedAt)
          /\ \E j \in 1..Len(cache) :
                /\ cache[j].queryKey = JsonParse(entries[i].k).val
                /\ Get(cache[j].state, Lit.data) = Get(entries[i].v, Lit.data)
                /\ Get(cache[j].state, Lit.dataUpdatedAt) = Get(entries[i].v, Lit.dataUpdatedAt)

C9_Installed == call.id \in subs /\ call.id \in listeners /\ inits = call.id

C10_CleanupCancels ==
    call.op = "cleanup"
    => /\ call.id \notin subs
       /\ call.id \notin listeners
       /\ timers = {}

\* A cleanup of a live subscription that found a save pending.
C10_Witness ==
    /\ call.op = "cleanup"
    /\ call.subscribed
    /\ call.pending # {}
    /\ timers = {}

----------------------------------------------------------------------------
(* handleBeforeUnload *)

\* A step in which the beforeunload handlers have run.
C11_HandlersRan == call'.op = "beforeunload" /\ hist'.unloads = hist.unloads + 1

\* C11: when the beforeunload handler returns, no save timer is pending, and
\* the snapshot of the cache as it is now has been passed to saveToStorage
\* once by each registered handler.
C11_UnloadSavesOnce ==
    [][C11_HandlersRan
       => /\ timers' = {}
          /\ call'.data = Serialize(cache, now)
          /\ cache' = cache
          /\ hist'.saves = hist.saves + Cardinality(listeners)]_vars

\* The handler ran while a debounced save of a changed cache was pending.
C11_Witness ==
    /\ call.op = "beforeunload"
    /\ call.pending # {}
    /\ Cardinality(call.handlers) = 1
    /\ Len(Get(call.data, Lit.queries).v) > 0
    /\ timers = {}

----------------------------------------------------------------------------
(* usePersistence: the hook AppContent renders the loading screen from     *)

MaxMounts == 2
MaxRenders == 1

\* AppContent mounts: useState(false), and the effect of the first render is
\* scheduled.  The caller's options object is the same at every render or a
\* new one each time (as AppContent's literal is).
MountHook ==
    /\ ~hook.mounted
    /\ hook.instance < MaxMounts
    /\ \E stable \in BOOLEAN :
          hook' = [mounted |-> TRUE, instance |-> hook.instance + 1,
                   isHydrated |-> FALSE, effectPending |-> TRUE, cleanup |-> 0,
                   stableOptions |-> stable, renders |-> 0]
    /\ call' = [op |-> "mount", instance |-> hook.instance + 1]
    /\ UNCHANGED <<now, cache, storage, lifecycle, besidesHook>>

\* The hook's state after initialize(): initializePersistence returned (its
\* cleanup is kept, setIsHydrated(true), onCacheLoaded) or threw, or
\* onCacheLoaded threw; a state change renders again, and a render with a new
\* options object schedules the effect again.
InitializeNoCatchHydrate(h, id, threw, loadedThrew) ==
    [h EXCEPT !.isHydrated = h.isHydrated \/ ~threw,
              !.cleanup = IF threw THEN 0 ELSE id,
              !.effectPending = ~h.isHydrated /\ ~threw /\ ~h.stableOptions]

Initialize(h, id, threw, loadedThrew) ==
    [h EXCEPT !.isHydrated = TRUE,
              !.cleanup = IF threw THEN 0 ELSE id,
              !.effectPending = ~h.isHydrated /\ ~h.stableOptions]

\* The effect runs: the cleanup of the previous run, if it kept one, then
\* initialize().
RunEffect ==
    /\ hook.mounted
    /\ hook.effectPending
    /\ \E cleaned \in {IF hook.cleanup = 0
                       THEN [timers |-> timers, subs |-> subs, listeners |-> listeners]
                       ELSE CleanupOutcome(hook.cleanup, timers, saveTimeout, subs,
                                           listeners)} :
       \E out \in {InitializePersistenceOutcome(inits + 1, storage, cache,
                                                cleaned.timers, saveTimeout, wrapDepth,
                                                cleaned.subs, cleaned.listeners, now)} :
       \E loadedThrew \in BOOLEAN :
          /\ storage' = out.store
          /\ cache' = out.queries
          /\ timers' = out.timers
          /\ saveTimeout' = out.saveTimeout
          /\ wrapDepth' = out.wrapDepth
          /\ subs' = out.subs
          /\ listeners' = out.listeners
          /\ inits' = IF out.threw THEN inits ELSE inits + 1
          /\ hook' = Initialize(hook, inits + 1, out.threw, loadedThrew)
          /\ call' = [op |-> "effect", instance |-> hook.instance, threw |-> out.threw,
                      loadedThrew |-> ~out.threw /\ loadedThrew]
    /\ UNCHANGED <<now, hist, besidesHook>>

\* The parent renders AppContent again.
Rerender ==
    /\ hook.mounted
    /\ ~hook.effectPending
    /\ hook.renders < MaxRenders
    /\ hook' = [hook EXCEPT !.renders = @ + 1, !.effectPending = ~hook.stableOptions]
    /\ call' = [op |-> "render", instance |-> hook.instance]
    /\ UNCHANGED <<now, cache, storage, lifecycle, besidesHook>>

\* clearCache(): clearPersistedCache removes the entry or throws, and the
\* error is logged; onCacheCleared.  No state of the hook is set.
ClearCache ==
    /\ hook.mounted
    /\ ~hook.effectPending
    /\ \E removeThrew \in BOOLEAN :
          /\ storage' = IF removeThrew THEN storage ELSE RemoveItem(storage, CACHE_KEY)
          /\ call' = [op |-> "clearCache", instance |-> hook.instance,
                      threw |-> removeThrew, wasHydrated |-> hook.isHydrated]
    /\ UNCHANGED <<now, cache, lifecycle, hook, besidesHook>>

\* AppContent unmounts: the effect's cleanup runs, and with it the cleanup
\* initializePersistence returned, if there is one.
UnmountHook ==
    /\ hook.mounted
    /\ ~hook.effectPending
    /\ \E cleaned \in {IF hook.cleanup = 0
                       THEN [timers |-> timers, subs |-> subs, listeners |-> listeners]
                       ELSE CleanupOutcome(hook.cleanup, timers, saveTimeout, subs,
                                           listeners)} :
          /\ timers' = cleaned.timers
          /\ subs' = cleaned.subs
          /\ listeners' = cleaned.listeners
    /\ hook' = [hook EXCEPT !.mounted = FALSE, !.isHydrated = FALSE, !.cleanup = 0]
    /\ call' = [op |-> "unmount", instance |-> hook.instance]
    /\ UNCHANGED <<now, cache, storage, saveTimeout, wrapDepth, inits, hist, besidesHook>>

NextHook == MountHook \/ RunEffect \/ Rerender \/ ClearCache \/ UnmountHook

\* React runs a scheduled effect before it handles anything else: weak
\* fairness of RunEffect, which is enabled exactly when an effect is due.
EffectDue == hook.mounted /\ hook.effectPending

EffectFairness == []<>(~EffectDue) \/ []<><<RunEffect>>_vars

SpecHook == Init /\ [][NextHook]_vars /\ EffectFairness

\* The instance mounted now is still mounted after the step.
C12_SameInstance == hook.mounted /\ hook'.mounted /\ hook'.instance = hook.instance

\* C12: a mounted usePersistence eventually has isHydrated true, whether
\* initializePersistence returned or threw, and from then on isHydrated stays
\* true while it is mounted, through clearCache too.
C12_HydratedForGood ==
    /\ \A n \in 1..MaxMounts :
          (hook.mounted /\ hook.instance = n) ~> (hook.instance = n /\ hook.isHydrated)
    /\ [][C12_SameInstance /\ hook.isHydrated => hook'.isHydrated]_vars

\* clearCache was called on a hook that is hydrated although
\* initializePersistence threw.
C12_Witness ==
    /\ call.op = "clearCache"
    /\ call.wasHydrated
    /\ hook.isHydrated
    /\ hook.cleanup = 0
    /\ GetItem(storage, CACHE_KEY) = Null

----------------------------------------------------------------------------
(* photoService.fetchPhotos *)

MAX_RETRIES == 3
RETRY_DELAY == 1000
FETCH_TIMEOUT == 10000

HttpPrefix == <<"H","T","T","P"," ">>
TimeoutMessage == <<"R","e","q","u","e","s","t"," ","t","i","m","e","o","u","t"," ","-"," ","p","l","e","a","s","e"," ","c","h","e","c","k"," ","y","o","u","r"," ","c","o","n","n","e","c","t","i","o","n">>
NetworkMessage == <<"N","e","t","w","o","r","k"," ","e","r","r","o","r"," ","-"," ","p","l","e","a","s","e"," ","c","h","e","c","k"," ","y","o","u","r"," ","c","o","n","n","e","c","t","i","o","n">>

\* new Error(message)
Error(message) == [name |-> "Error", message |-> Str(message)]

\* `HTTP ${response.status}: ${response.statusText}`
HttpMessage(status, statusText) ==
    HttpPrefix \o NumberToString(status) \o <<":", " ">> \o statusText

\* Responses that are not ok.
HttpFailures ==
    { [status |-> 500, statusText |-> <<"I","n","t","e","r","n","a","l"," ","S","e","r","v","e","r"," ","E","r","r","o","r">>],
      [status |-> 404, statusText |-> <<>>] }

\* What fetch rejects with when no response arrives: a network error, with a
\* message or without one.
NetworkFailures ==
    { Error(<<"N","e","t","w","o","r","k"," ","e","r","r","o","r">>), Error(<<>>) }

\* What fetch rejects with when the controller aborts it.
AbortError == [name |-> "AbortError", message |-> Undefined]

\* What response.json() rejects with.
ParseFailure == Error(<<"J","S","O","N"," ","p","a","r","s","e"," ","e","r","r","o","r">>)

\* The pages asked for and the photo lists the API answers with.
Pages == {0, 1}
PhotoLists == {Arr(<<>>), Arr(<<Num(1)>>)}

\* fetchPhotos(page, retryCount) up to its first await: the abort timer is
\* set and fetch is called.
Attempt(s, page, retryCount, t) ==
    [s EXCEPT !.pc = "fetching", !.page = page, !.retryCount = retryCount,
              !.fetchCalls = @ + 1, !.deadline = t + FETCH_TIMEOUT]

Rejected(s, error) == [s EXCEPT !.pc = "rejected", !.error = error, !.deadline = 0]

\* The error thrown when the retries are used up.
FinalError(error) ==
    Error(IF error.name = "AbortError" THEN TimeoutMessage
          ELSE IF Truthy(error.message) THEN error.message.v
          ELSE NetworkMessage)

\* The catch block, entered with error at time t.
CaughtRetriesHttp(s, error, t) ==
    IF s.retryCount < MAX_RETRIES
    THEN [s EXCEPT !.pc = "delaying", !.deadline = t + RETRY_DELAY * (s.retryCount + 1)]
    ELSE Rejected(s, FinalError(error))

CaughtRetriesOnceMore(s, error, t) ==
    IF Truthy(error.message) /\ StartsWith(error.message.v, HttpPrefix)
    THEN Rejected(s, error)
    ELSE IF s.retryCount <= MAX_RETRIES
    THEN [s EXCEPT !.pc = "delaying", !.deadline = t + RETRY_DELAY * (s.retryCount + 1)]
    ELSE Rejected(s, FinalError(error))

Caught(s, error, t) ==
    IF Truthy(error.message) /\ StartsWith(error.message.v, HttpPrefix)
    THEN Rejected(s, error)
    ELSE IF s.retryCount < MAX_RETRIES
    THEN [s EXCEPT !.pc = "delaying", !.deadline = t + RETRY_DELAY * (s.retryCount + 1)]
    ELSE Rejected(s, FinalError(error))

\* The attempt that has just ended, added to the record of the call.
Outcome(s, outcome) == [s EXCEPT !.outcomes = Append(@, outcome)]

InitFetch ==
    /\ now = StartTime
    /\ cache = <<>>
    /\ storage = {}
    /\ call = NoCall
    /\ Idle

\* A caller calls fetchPhotos(page, retryCount).
FetchPhotosCall ==
    /\ svc.pc = "idle"
    /\ \E page \in Pages, retryCount \in 0..MAX_RETRIES :
          svc' = Attempt([svc EXCEPT !.entry = retryCount], page, retryCount, now)
    /\ UNCHANGED <<now, cache, storage, call, lifecycle, besidesSvc>>

\* fetch settles before the abort timer fires: with a response that is ok
\* (clearTimeout, response.json() is called), with one that is not (the HTTP
\* error is thrown and caught), or with a rejection.
FetchSettles ==
    /\ svc.pc = "fetching"
    /\ now < svc.deadline
    /\ \/ svc' = [svc EXCEPT !.pc = "parsing", !.deadline = 0]
       \/ \E r \in HttpFailures :
             svc' = Caught(Outcome(svc, [kind |-> "http", status |-> r.status,
                                         statusText |-> r.statusText]),
                           Error(HttpMessage(r.status, r.statusText)), now)
       \/ \E e \in NetworkFailures :
             svc' = Caught(Outcome(svc, [kind |-> "network"]), e, now)
    /\ UNCHANGED <<now, cache, storage, call, lifecycle, besidesSvc>>

\* The abort timer fires while fetch is pending: fetch rejects.
AbortFires ==
    /\ svc.pc = "fetching"
    /\ now >= svc.deadline
    /\ svc' = Caught(Outcome(svc, [kind |-> "abort"]), AbortError, now)
    /\ UNCHANGED <<now, cache, storage, call, lifecycle, besidesSvc>>

\* response.json() settles: with the data, which fetchPhotos returns, or with
\* a rejection.
JsonSettles ==
    /\ svc.pc = "parsing"
    /\ \/ \E data \in PhotoLists :
             svc' = [Outcome(svc, [kind |-> "ok", data |-> data])
                        EXCEPT !.pc = "resolved", !.result = data]
       \/ svc' = Caught(Outcome(svc, [kind |-> "parse"]), ParseFailure, now)
    /\ UNCHANGED <<now, cache, storage, call, lifecycle, besidesSvc>>

\* The delay is over: return fetchPhotos(page, retryCount + 1).
RetryFires ==
    /\ svc.pc = "delaying"
    /\ now >= svc.deadline
    /\ svc' = Attempt(svc, svc.page, svc.retryCount + 1, now)
    /\ UNCHANGED <<now, cache, storage, call, lifecycle, besidesSvc>>

\* Time passes until the timer that is pending is due.
Elapse ==
    /\ svc.pc \in {"fetching", "delaying"}
    /\ now < svc.deadline
    /\ now' = svc.deadline
    /\ UNCHANGED <<cache, storage, call, lifecycle, components>>

\* What happens by itself once fetchPhotos has been called.
Settling == AbortFires \/ JsonSettles \/ RetryFires \/ Elapse

NextFetch == FetchPhotosCall \/ FetchSettles \/ Settling

\* Timers fire when they are due, and response.json() settles.
SpecFetch == InitFetch /\ [][NextFetch]_vars /\ WF_vars(Settling)

\* C13: a response that is not ok ends the call: fetchPhotos rejects with
\* 'HTTP <status>: <statusText>' and fetch is not called again, so a call
\* whose first response is not ok has called fetch exactly once, whatever
\* its retryCount.
C13_HttpNotRetried ==
    \A i \in 1..Len(svc.outcomes) :
       svc.outcomes[i].kind = "http"
       => /\ svc.pc = "rejected"
          /\ i = Len(svc.outcomes)
          /\ svc.fetchCalls = i
          /\ svc.error.message.v
               = <<"H", "T", "T", "P", " ">> \o NumberToString(svc.outcomes[i].status)
                   \o <<":", " ">> \o svc.outcomes[i].statusText

\* fetchPhotos was called with a retryCount above 0 and its first response
\* was not ok.
C13_Witness ==
    /\ svc.pc = "rejected"
    /\ svc.entry > 0
    /\ svc.fetchCalls = 1
    /\ Len(svc.outcomes) = 1
    /\ svc.outcomes[1].kind = "http"

\* An attempt that failed otherwise than by an HTTP status.
C14_Failed(outcome) == outcome.kind \in {"network", "abort", "parse"}

C14_AtMostFourCalls ==
    /\ svc.fetchCalls <= 4
    /\ svc.fetchCalls <= MAX_RETRIES + 1 - svc.entry
    /\ svc.pc = "resolved"
       => /\ svc.fetchCalls = Len(svc.outcomes)
          /\ \A i \in 1..(Len(svc.outcomes) - 1) : C14_Failed(svc.outcomes[i])
          /\ svc.outcomes[Len(svc.outcomes)].kind = "ok"
          /\ svc.result = svc.outcomes[Len(svc.outcomes)].data
    /\ (svc.pc = "rejected" /\ \A i \in 1..Len(svc.outcomes) : C14_Failed(svc.outcomes[i]))
       => /\ svc.fetchCalls = MAX_RETRIES + 1 - svc.entry
          /\ svc.entry = 0 => svc.fetchCalls = 4

----------------------------------------------------------------------------
(* PhotoGallery: infinite scrolling *)

MaxPages == 3
MaxRequests == 3
MaxImageErrors == 2

\* useInfinitePhotos(20)
PageLimit == 20
\* The distance from the document's end within which the next page is
\* fetched.
ScrollMargin == 1000

\* The ids of the photos of a page of the given size.
PageOf(number, size) == [i \in 1..size |-> (number - 1) * PageLimit + i]

\* The sizes of the pages the API answers with: full, partial, empty.
PageSizes == {PageLimit, 15, 0}

\* getNextPageParam: a full page has a successor.
GetNextPageParam(lastPage, allPages) ==
    IF Len(lastPage) = PageLimit THEN Num(Len(allPages) + 1) ELSE Undefined

\* What the window and the document measure when a scroll event fires:
\* innerHeight, scrollTop, offsetHeight.
Viewports ==
    { [innerHeight |-> 800, scrollTop |-> 1000, offsetHeight |-> 1800],
      [innerHeight |-> 800, scrollTop |-> 0, offsetHeight |-> 1800],
      [innerHeight |-> 800, scrollTop |-> 0, offsetHeight |-> 1801],
      [innerHeight |-> 800, scrollTop |-> 3199, offsetHeight |-> 5000],
      [innerHeight |-> 800, scrollTop |-> 3200, offsetHeight |-> 5000] }

\* The flags the handler registered by a render closes over.
Rendered(g) ==
    [hasNextPage |-> g.hasNextPage, isFetchingNextPage |-> g.isFetchingNextPage]

\* The condition of handleScroll.
HandleScrollFetchesWhileFetching(view, seen) ==
    /\ view.innerHeight + view.scrollTop >= view.offsetHeight - ScrollMargin
    /\ seen.hasNextPage

HandleScroll(view, seen) ==
    /\ view.innerHeight + view.scrollTop >= view.offsetHeight - ScrollMargin
    /\ seen.hasNextPage
    /\ ~seen.isFetchingNextPage

\* data.pages.flat()
RECURSIVE Flat(_)
Flat(pages) == IF pages = <<>> THEN <<>> ELSE pages[1] \o Flat(Tail(pages))

\* getColumnCount, for a window of the given width.
GetColumnCount(width) ==
    IF width < 640 THEN 1
    ELSE IF width < 768 THEN 2
    ELSE IF width < 1024 THEN 3
    ELSE IF width < 1280 THEN 4
    ELSE 5

WindowWidths == {500, 640, 1023, 1024, 1280}

\* allPhotos.filter(photo => !invalidPhotos.has(photo.id))
ValidPhotos(allPhotos, invalidPhotos) ==
    SelectSeq(allPhotos, LAMBDA id : id \notin invalidPhotos)

\* createOrderedMasonryColumns
CreateColumnsByPhotoIndex(allPhotos, invalidPhotos, columnCount) ==
    LET RECURSIVE Push(_, _)
        Push(columns, index) ==
            IF index >= Len(allPhotos) THEN columns
            ELSE IF allPhotos[index + 1] \in invalidPhotos THEN Push(columns, index + 1)
            ELSE Push([columns EXCEPT ![(index % columnCount) + 1] =
                                         Append(@, allPhotos[index + 1])],
                      index + 1)
    IN  Push([column \in 1..columnCount |-> <<>>], 0)

CreateOrderedMasonryColumns(allPhotos, invalidPhotos, columnCount) ==
    LET validPhotos == ValidPhotos(allPhotos, invalidPhotos)
        RECURSIVE Push(_, _)
        Push(columns, index) ==
            IF index >= Len(validPhotos) THEN columns
            ELSE Push([columns EXCEPT ![(index % columnCount) + 1] =
                                         Append(@, validPhotos[index + 1])],
                      index + 1)
    IN  Push([column \in 1..columnCount |-> <<>>], 0)

\* The columns a render of the gallery lays out.
WithColumns(g) ==
    [g EXCEPT !.columns = CreateOrderedMasonryColumns(Flat(g.pages), g.invalidPhotos,
                                                      g.columnCount)]

\* The photos an image of which is in the document.
Displayed(g) == UNION {{g.columns[c][k] : k \in 1..Len(g.columns[c])} :
                         c \in 1..Len(g.columns)}

InitGallery ==
    /\ now = StartTime
    /\ cache = <<>>
    /\ storage = {}
    /\ call = NoCall
    /\ Idle

\* The page being fetched arrives: the first page, or the next one.
PageArrives ==
    /\ gallery.isLoading \/ gallery.isFetchingNextPage
    /\ \E size \in PageSizes :
          /\ Len(gallery.pages) + 1 < MaxPages \/ size < PageLimit
          /\ LET page == PageOf(Len(gallery.pages) + 1, size)
                 pages == Append(gallery.pages, page)
             IN  gallery' = [gallery EXCEPT
                    !.pages = pages,
                    !.isLoading = FALSE,
                    !.isFetchingNextPage = FALSE,
                    !.hasNextPage = GetNextPageParam(page, pages) # Undefined,
                    !.stale = TRUE,
                    !.last = [op |-> "page"]]
    /\ UNCHANGED <<now, cache, storage, call, lifecycle, besidesGallery>>

\* The fetch of the next page fails.
NextPageFails ==
    /\ gallery.isFetchingNextPage
    /\ gallery' = [gallery EXCEPT !.isFetchingNextPage = FALSE, !.stale = TRUE,
                                  !.last = [op |-> "failed"]]
    /\ UNCHANGED <<now, cache, storage, call, lifecycle, besidesGallery>>

\* PhotoGallery renders with the query's new result, and the effect puts a
\* handler of this render in place of the old one.
RenderGallery ==
    /\ gallery.stale
    /\ gallery' = WithColumns([gallery EXCEPT !.seen = Rendered(gallery),
                                              !.stale = FALSE,
                                              !.last = [op |-> "render"]])
    /\ UNCHANGED <<now, cache, storage, call, lifecycle, besidesGallery>>

\* The window fires scroll, after React has rendered what changed:
\* handleScroll runs, and fetchNextPage starts the fetch of the next page.
Scroll ==
    /\ ~gallery.stale
    /\ gallery.requests < MaxRequests
    /\ \E view \in Viewports :
          LET fetches == HandleScroll(view, gallery.seen)
          IN  gallery' = [gallery EXCEPT
                 !.isFetchingNextPage = @ \/ fetches,
                 !.stale = fetches,
                 !.requests = IF fetches THEN @ + 1 ELSE @,
                 !.last = [op |-> "scroll", view |-> view, fetches |-> fetches]]
    /\ UNCHANGED <<now, cache, storage, call, lifecycle, besidesGallery>>

\* An image of the grid fails to load: handleImageError(photo.id), and the
\* gallery renders without the photo.
ImageError ==
    /\ gallery.imageErrors < MaxImageErrors
    /\ \E id \in Displayed(gallery) :
          /\ id % PageLimit \in {0, 1}
          /\ gallery' = WithColumns([gallery EXCEPT
                            !.invalidPhotos = @ \cup {id},
                            !.imageErrors = @ + 1,
                            !.last = [op |-> "imageError", id |-> id]])
    /\ UNCHANGED <<now, cache, storage, call, lifecycle, besidesGallery>>

\* The window is resized: handleResize, and the gallery renders with the
\* new number of columns.
Resize ==
    /\ \E width \in WindowWidths :
          gallery' = WithColumns([gallery EXCEPT
                        !.columnCount = GetColumnCount(width),
                        !.last = [op |-> "resize", width |-> width]])
    /\ UNCHANGED <<now, cache, storage, call, lifecycle, besidesGallery>>

NextGallery ==
    \/ PageArrives
    \/ NextPageFails
    \/ RenderGallery
    \/ Scroll
    \/ ImageError
    \/ Resize

SpecGallery == InitGallery /\ [][NextGallery]_vars

\* A step in which handleScroll called fetchNextPage.
C15_Requested == gallery'.requests = gallery.requests + 1

----------------------------------------------------------------------------
(* PhotoModal *)

MaxOpens == 2
MaxUiEvents == 2
MaxModalSeconds == 4

\* The delay of the timer that closes the modal after the toast.
CLOSE_DELAY == 2000

\* The elements PhotoModal renders that a click can land on, and the parent
\* of each.
ModalNodes ==
    {"backdrop", "closeButton", "closeIcon", "container", "image", "indicator",
     "infoPanel", "downloadLink", "unsplashLink", "toast"}

ParentNode(node) ==
    CASE node = "closeIcon" -> "closeButton"
      [] node \in {"image", "indicator", "infoPanel"} -> "container"
      [] node \in {"downloadLink", "unsplashLink"} -> "infoPanel"
      [] OTHER -> "backdrop"

\* handleBackdropClick: how many times it calls onClose.
HandleBackdropClickAnyTarget(target, currentTarget) == 1

HandleBackdropClick(target, currentTarget) ==
    IF target = currentTarget THEN 1 ELSE 0

\* How many times a click on target calls onClose, from the handlers of node
\* and of the elements above it, as the event bubbles.
RECURSIVE ClickCloses(_, _)
ClickCloses(node, target) ==
    CASE node = "backdrop" -> HandleBackdropClick(target, node)
      [] node = "closeButton" -> 1 + ClickCloses(ParentNode(node), target)
      [] node \in {"downloadLink", "unsplashLink"} -> 0
      [] OTHER -> ClickCloses(ParentNode(node), target)

Keys == {"Escape", "Enter", "Space"}

\* handleEscape: how many times it calls onClose.
HandleEscape(key) == IF key = "Escape" THEN 1 ELSE 0

\* onClose, called n times: closeModal sets selectedPhoto to null, and
\* PhotoGallery unmounts whatever PhotoModal it shows.
OnClose(m, n) ==
    [m EXCEPT !.closes = @ + n, !.open = @ /\ n = 0]

\* The modal of this mount is the one shown.
Mounted(m, i) == m.open /\ m.instance = i

\* handleHDImageError: the original image is loaded with new Image().
HandleHDImageErrorShowsToast(m) ==
    [m EXCEPT !.isLoadingFullSize = TRUE, !.showToast = TRUE,
              !.shown = @ \cup {[instance |-> m.instance, at |-> 0]},
              !.images[m.instance].hd = "failed",
              !.images[m.instance].original = "loading"]

HandleHDImageError(m) ==
    [m EXCEPT !.isLoadingFullSize = TRUE,
              !.images[m.instance].hd = "failed",
              !.images[m.instance].original = "loading"]

\* fullSizeImg.onload of mount i: the state setters act on a mounted
\* component only.
FullSizeOnLoad(m, i) ==
    IF Mounted(m, i)
    THEN [m EXCEPT !.currentImageUrl = "original", !.isHighResLoaded = TRUE,
                   !.isLoadingFullSize = FALSE, !.images[i].original = "loaded"]
    ELSE [m EXCEPT !.images[i].original = "loaded"]

\* fullSizeImg.onerror of mount i at time t.
FullSizeOnError(m, i, t) ==
    LET timed == [m EXCEPT !.images[i].original = "failed",
                           !.closeTimers = @ \cup {[instance |-> i, due |-> t + CLOSE_DELAY]}]
    IN  IF Mounted(m, i)
        THEN [timed EXCEPT !.isLoadingFullSize = FALSE, !.showToast = TRUE,
                           !.shown = @ \cup {[instance |-> i, at |-> t]}]
        ELSE timed

NoCloseTimerDue == \A timer \in modal.closeTimers : timer.due > now

InitModal ==
    /\ now = StartTime
    /\ cache = <<>>
    /\ storage = {}
    /\ call = NoCall
    /\ Idle

\* The user clicks a photo: openModal, and PhotoModal mounts and starts to
\* load the HD image.
OpenModal ==
    /\ NoCloseTimerDue
    /\ ~modal.open
    /\ modal.instance < MaxOpens
    /\ modal' = [modal EXCEPT
          !.open = TRUE, !.instance = @ + 1, !.isHighResLoaded = FALSE,
          !.isLoadingFullSize = FALSE, !.showToast = FALSE,
          !.currentImageUrl = "cached",
          !.images = Append(@, [hd |-> "loading", original |-> "none"]),
          !.last = [op |-> "open"]]
    /\ UNCHANGED <<now, cache, storage, call, lifecycle, besidesModal>>

\* The hidden HD image loads.
HDImageLoads ==
    /\ NoCloseTimerDue
    /\ modal.open
    /\ modal.images[modal.instance].hd = "loading"
    /\ modal' = [modal EXCEPT !.currentImageUrl = "hd", !.isHighResLoaded = TRUE,
                              !.images[modal.instance].hd = "loaded",
                              !.last = [op |-> "hdLoad"]]
    /\ UNCHANGED <<now, cache, storage, call, lifecycle, besidesModal>>

\* The hidden HD image fails to load.
HDImageFails ==
    /\ NoCloseTimerDue
    /\ modal.open
    /\ modal.images[modal.instance].hd = "loading"
    /\ modal' = [HandleHDImageError(modal) EXCEPT !.last = [op |-> "hdError"]]
    /\ UNCHANGED <<now, cache, storage, call, lifecycle, besidesModal>>

\* An original image settles, of the modal shown or of one closed since.
FullSizeImageSettles ==
    /\ NoCloseTimerDue
    /\ \E i \in 1..Len(modal.images) :
          /\ modal.images[i].original = "loading"
          /\ \/ modal' = [FullSizeOnLoad(modal, i) EXCEPT !.last = [op |-> "load"]]
             \/ modal' = [FullSizeOnError(modal, i, now) EXCEPT !.last = [op |-> "error"]]
    /\ UNCHANGED <<now, cache, storage, call, lifecycle, besidesModal>>

\* The timer set by fullSizeImg.onerror fires: onClose().
CloseTimerFires ==
    /\ \E timer \in modal.closeTimers :
          /\ timer.due <= now
          /\ modal' = [OnClose(modal, 1) EXCEPT
                !.closeTimers = @ \ {timer},
                !.timerCloses = @ \cup {[instance |-> timer.instance, at |-> now]},
                !.last = [op |-> "timer", instance |-> timer.instance,
                          closed |-> IF modal.open THEN modal.instance ELSE 0]]
    /\ UNCHANGED <<now, cache, storage, call, lifecycle, besidesModal>>

\* A key goes down while the modal is shown.
KeyDown ==
    /\ NoCloseTimerDue
    /\ modal.open
    /\ modal.events < MaxUiEvents
    /\ \E key \in Keys :
          modal' = [OnClose(modal, HandleEscape(key)) EXCEPT
                       !.events = @ + 1, !.last = [op |-> "keydown", key |-> key]]
    /\ UNCHANGED <<now, cache, storage, call, lifecycle, besidesModal>>

\* The user clicks an element of the modal.
Click ==
    /\ NoCloseTimerDue
    /\ modal.open
    /\ modal.events < MaxUiEvents
    /\ \E target \in ModalNodes :
          /\ target = "toast" => modal.showToast
          /\ target = "indicator" => ~modal.isHighResLoaded
          /\ modal' = [OnClose(modal, ClickCloses(target, target)) EXCEPT
                          !.events = @ + 1, !.last = [op |-> "click", target |-> target]]
    /\ UNCHANGED <<now, cache, storage, call, lifecycle, besidesModal>>

\* A second passes; a timer that is due fires first.
ModalTick ==
    /\ NoCloseTimerDue
    /\ now + 1000 <= StartTime + MaxModalSeconds * 1000
    /\ now' = now + 1000
    /\ UNCHANGED <<cache, storage, call, lifecycle, components>>

NextModal ==
    \/ OpenModal
    \/ HDImageLoads
    \/ HDImageFails
    \/ FullSizeImageSettles
    \/ CloseTimerFires
    \/ KeyDown
    \/ Click
    \/ ModalTick

SpecModal == InitModal /\ [][NextModal]_vars

\* An image of mount i has loaded.
C16_Loaded(i) ==
    modal.images[i].hd = "loaded" \/ modal.images[i].original = "loaded"

\* C16: the toast is shown only once the HD image and then the original
\* image have failed, and onClose is called by a timer 2000 ms after it was
\* shown; when either image has loaded the loading indicator is gone and no
\* toast is or was shown.
C16_ImageFallback ==
    /\ \A toast \in modal.shown :
          /\ modal.images[toast.instance].hd = "failed"
          /\ modal.images[toast.instance].original = "failed"
          /\ \/ /\ [instance |-> toast.instance, due |-> toast.at + 2000]
                      \in modal.closeTimers
                /\ now <= toast.at + 2000
             \/ [instance |-> toast.instance, at |-> toast.at + 2000] \in modal.timerCloses
    /\ modal.showToast => \E toast \in modal.shown : toast.instance = modal.instance
    /\ \A i \in 1..Len(modal.images) :
          C16_Loaded(i)
          => /\ \A toast \in modal.shown : toast.instance # i
             /\ Mounted(modal, i) => modal.isHighResLoaded /\ ~modal.showToast
    /\ (modal.open /\ modal.images[modal.instance].original = "loading")
          => modal.isLoadingFullSize /\ modal.currentImageUrl = "cached"

\* The timer has closed the modal whose toast was shown 2000 ms before.
C16_Witness ==
    /\ modal.last.op = "timer"
    /\ modal.last.closed = modal.last.instance
    /\ [instance |-> modal.last.instance, at |-> now - 2000] \in modal.shown
    /\ ~modal.open

\* A step in which a key went down or an element was clicked.
C17_Event == modal'.events = modal.events + 1

\* C17: an Escape keydown, a click on the Close button and a click on the
\* backdrop itself each call onClose exactly once; other keys and clicks
\* elsewhere in the modal do not call it.
C17_ClosesOnce ==
    [][C17_Event
       => modal'.closes - modal.closes
            = IF \/ modal'.last.op = "keydown" /\ modal'.last.key = "Escape"
                 \/ modal'.last.op = "click"
                      /\ modal'.last.target \in {"closeButton", "closeIcon", "backdrop"}
              THEN 1 ELSE 0]_vars

\* A click on the icon inside the Close button has closed the modal.
C17_Witness ==
    /\ modal.last.op = "click"
    /\ modal.last.target = "closeIcon"
    /\ modal.closes = 1
    /\ ~modal.open

----------------------------------------------------------------------------
(* ErrorBoundary *)

MaxBoundaryRenders == 3

DefaultFallbackMessage ==
    <<"W","e"," ","e","n","c","o","u","n","t","e","r","e","d"," ","a","n"," ","u","n","e","x","p","e","c","t","e","d"," ","e","r","r","o","r","."," ","P","l","e","a","s","e"," ","t","r","y"," ","r","e","f","r","e","s","h","i","n","g"," ","t","h","e"," ","p","a","g","e",".">>

\* The fallbackMessage props the boundary is given: none, empty, custom.
FallbackMessages == {Undefined, Str(<<>>), Str(<<"C","u","s","t","o","m"," ","e","r","r","o","r">>)}

\* The children given to the boundary, and what a child may throw.
ChildrenProps == {1, 2}
Thrown ==
    { Error(<<"C","u","s","t","o","m"," ","e","r","r","o","r"," ","m","e","s","s","a","g","e">>),
      Error(<<"F","i","r","s","t"," ","e","r","r","o","r">>), Error(<<>>), Null }

\* this.props.fallbackMessage || '...'
FallbackTextUnlessUndefined(fallbackMessage) ==
    IF fallbackMessage # Undefined THEN fallbackMessage.v ELSE DefaultFallbackMessage

FallbackText(fallbackMessage) ==
    IF Truthy(fallbackMessage) THEN fallbackMessage.v ELSE DefaultFallbackMessage

\* render()
RenderBoundary(b) ==
    IF b.hasError
    THEN [kind |-> "fallback", message |-> FallbackText(b.fallbackMessage)]
    ELSE [kind |-> "children", children |-> b.children]

\* A child threw while rendering: getDerivedStateFromError, the render of
\* the fallback, then componentDidCatch and the render its setState causes.
CatchError(b, error) ==
    LET derived == [b EXCEPT !.hasError = TRUE]
        caught == [derived EXCEPT !.logged = Append(@, error), !.error = error,
                                  !.errorInfo = Str(<<"s", "t", "a", "c", "k">>)]
    IN  [caught EXCEPT !.output = RenderBoundary(caught)]

\* The boundary renders with its props and state; its children, when they
\* are rendered, throw or not.
Rendering(b, throws, error) ==
    IF ~b.hasError /\ throws
    THEN [CatchError(b, error) EXCEPT !.caught = @ + 1]
    ELSE [b EXCEPT !.output = RenderBoundary(b)]

InitBoundary ==
    /\ now = StartTime
    /\ cache = <<>>
    /\ storage = {}
    /\ call = NoCall
    /\ Idle

\* new ErrorBoundary(props) and its first render.
MountBoundary ==
    /\ ~boundary.mounted
    /\ \E message \in FallbackMessages, children \in ChildrenProps,
          throws \in BOOLEAN, error \in Thrown :
          boundary' = Rendering([boundary EXCEPT !.mounted = TRUE,
                                                 !.fallbackMessage = message,
                                                 !.children = children],
                                throws, error)
    /\ UNCHANGED <<now, cache, storage, call, lifecycle, besidesBoundary>>

\* The parent renders the boundary again, with the same props or others.
RerenderBoundary ==
    /\ boundary.mounted
    /\ boundary.renders < MaxBoundaryRenders
    /\ \E message \in FallbackMessages, children \in ChildrenProps,
          throws \in BOOLEAN, error \in Thrown :
          boundary' = Rendering([boundary EXCEPT !.fallbackMessage = message,
                                                 !.children = children,
                                                 !.renders = @ + 1],
                                throws, error)
    /\ UNCHANGED <<now, cache, storage, call, lifecycle, besidesBoundary>>

\* A child that is mounted renders again by itself and throws.
ChildThrows ==
    /\ boundary.mounted
    /\ boundary.output.kind = "children"
    /\ \E error \in Thrown :
          boundary' = Rendering(boundary, TRUE, error)
    /\ UNCHANGED <<now, cache, storage, call, lifecycle, besidesBoundary>>

NextBoundary == MountBoundary \/ RerenderBoundary \/ ChildThrows

SpecBoundary == InitBoundary /\ [][NextBoundary]_vars

\* What is rendered goes with hasError, the fallback shows the message or
\* the default, and each caught error was logged once.
C18_Rendered ==
    boundary.mounted
    => /\ boundary.output.kind = "children" <=> ~boundary.hasError
       /\ boundary.output.kind = "fallback" <=> boundary.hasError
       /\ boundary.hasError
          => /\ boundary.caught = 1
             /\ boundary.output.message
                  = IF boundary.fallbackMessage \in {Undefined, Str(<<>>)}
                    THEN DefaultFallbackMessage ELSE boundary.fallbackMessage.v
       /\ ~boundary.hasError => boundary.output.children = boundary.children
       /\ Len(boundary.logged) = boundary.caught

\* C18: ErrorBoundary renders its children exactly when hasError is false;
\* a throwing child sets hasError, which is never reset, the fallback with
\* fallbackMessage (the default when it is absent or empty) replaces the
\* children, and every caught error is logged once.
C18_FallbackForGood ==
    /\ [](C18_Rendered)
    /\ [][boundary.hasError => boundary'.hasError]_vars
    /\ [][boundary'.caught > boundary.caught
             => boundary'.hasError /\ Len(boundary'.logged) = Len(boundary.logged) + 1]_vars

\* A boundary that caught an error was rendered again with an empty
\* fallbackMessage and children that would throw.
C18_Witness ==
    /\ boundary.hasError
    /\ boundary.renders > 0
    /\ boundary.fallbackMessage = Str(<<>>)
    /\ boundary.output.kind = "fallback"
    /\ boundary.output.message = DefaultFallbackMessage
    /\ Len(boundary.logged) = 1

----------------------------------------------------------------------------
(* The service worker's fetch handler *)

MaxFetchEvents == 2

ImageHost == <<"p","i","c","s","u","m",".","p","h","o","t","o","s">>

\* String.prototype.includes
StringIncludes(s, part) ==
    \E i \in 1..(Len(s) - Len(part) + 1) : SubSeq(s, i, i + Len(part) - 1) = part

\* The URLs the page requests (all with GET): a slideshow image, the photo
\* list, and two that are not of the image host.
SlideshowUrl == <<"h","t","t","p","s",":","/","/","p","i","c","s","u","m",".","p","h","o","t","o","s","/","i","d","/","4","2","/","4","0","0","/","2","0","0">>
RequestUrls ==
    { SlideshowUrl,
      <<"h","t","t","p","s",":","/","/","p","i","c","s","u","m",".","p","h","o","t","o","s","/","v","2","/","l","i","s","t","?","p","a","g","e","=","1">>,
      <<"h","t","t","p",":","/","/","l","o","c","a","l","h","o","s","t","/","s","t","a","t","i","c","/","m","a","i","n",".","j","s">>,
      <<"h","t","t","p","s",":","/","/","p","i","c","s","u","m",".","p","h","o","t","o","/","s">> }

\* The statuses of the network's responses (0: an opaque response), and the
\* versions of a resource the network may answer with.
Statuses == {200, 0, 206, 404}
Bodies == {1, 2}

\* cache.match(request): the response stored for the URL, or undefined.
CacheMatch(entries, url) ==
    IF \E e \in entries : e.url = url
    THEN (CHOOSE e \in entries : e.url = url).response
    ELSE Undefined

\* cache.put(request, response)
CachePut(entries, url, response) ==
    {e \in entries : e.url # url} \cup {[url |-> url, response |-> response]}

\* What the handler does with the response of fetch(event.request).
StoreFetchedAlways(entries, url, response) == CachePut(entries, url, response)

StoreFetched(entries, url, response) ==
    IF response.status = 200 THEN CachePut(entries, url, response) ELSE entries

\* The cache after install: empty (pre-caching failed) or holding a
\* slideshow image.
InitWorker ==
    /\ now = StartTime
    /\ cache = <<>>
    /\ storage = {}
    /\ call = NoCall
    /\ timers = {}
    /\ saveTimeout = 0
    /\ wrapDepth = 0
    /\ subs = {}
    /\ listeners = {}
    /\ inits = 0
    /\ hist = NoHistory
    /\ hook = NoHook
    /\ svc = NoService
    /\ gallery = NoGallery
    /\ modal = NoModal
    /\ boundary = NoBoundary
    /\ sw \in {[NoWorker EXCEPT !.cache = entries] :
                 entries \in {{}, {[url |-> SlideshowUrl,
                                    response |-> [status |-> 200, body |-> 1]]}}}

\* The page makes a request and the worker receives the fetch event: a URL
\* of the image host is answered from the cache, or fetch(event.request)
\* starts; other requests are left to the browser.
FetchEvent ==
    /\ sw.events < MaxFetchEvents
    /\ \E url \in RequestUrls :
          LET id == sw.events + 1
              hit == CacheMatch(sw.cache, url)
              seen == [sw EXCEPT !.events = id]
          IN  IF ~StringIncludes(url, ImageHost)
              THEN sw' = [seen EXCEPT !.log = Append(@,
                             [id |-> id, url |-> url, intercepted |-> FALSE])]
              ELSE IF hit # Undefined
              THEN sw' = [seen EXCEPT !.log = Append(@,
                             [id |-> id, url |-> url, intercepted |-> TRUE,
                              from |-> "cache", response |-> hit])]
              ELSE sw' = [seen EXCEPT !.fetches = @ + 1,
                                      !.pending = @ \cup {[id |-> id, url |-> url]}]
    /\ UNCHANGED <<now, cache, storage, call, lifecycle, besidesWorker>>

\* fetch(event.request) resolves: the response is stored or not, and is
\* returned to the page.
NetworkResponds ==
    /\ \E request \in sw.pending, status \in Statuses, body \in Bodies :
          LET response == [status |-> status, body |-> body]
          IN  sw' = [sw EXCEPT
                 !.pending = @ \ {request},
                 !.cache = StoreFetched(@, request.url, response),
                 !.log = Append(@, [id |-> request.id, url |-> request.url,
                                    intercepted |-> TRUE, from |-> "network",
                                    response |-> response])]
    /\ UNCHANGED <<now, cache, storage, call, lifecycle, besidesWorker>>

\* fetch(event.request) rejects: the error is logged and thrown again.
NetworkFails ==
    /\ \E request \in sw.pending :
          sw' = [sw EXCEPT
                 !.pending = @ \ {request},
                 !.log = Append(@, [id |-> request.id, url |-> request.url,
                                    intercepted |-> TRUE, from |-> "error"])]
    /\ UNCHANGED <<now, cache, storage, call, lifecycle, besidesWorker>>

NextWorker == FetchEvent \/ NetworkResponds \/ NetworkFails

SpecWorker == InitWorker /\ [][NextWorker]_vars

\* The event that the step has finished handling.
C19_Handled == sw'.log[Len(sw'.log)]

----------------------------------------------------------------------------
(* The masonry grid *)

\* The photos of the pages fetched whose image has not failed, in order.
C20_Valid == ValidPhotos(Flat(gallery.pages), gallery.invalidPhotos)

\* The places at which a photo is found in the columns.
C20_Places(id) ==
    UNION {{<<c, k>> : k \in {r \in 1..Len(gallery.columns[c]) :
                                  gallery.columns[c][r] = id}} :
             c \in 1..Len(gallery.columns)}

\* C20: once the gallery has rendered, the i-th valid photo (counted from 0)
\* is in column i mod columnCount, every valid photo is in exactly one
\* column, no photo whose image failed is in any, and two columns differ in
\* length by at most one.
C20_ColumnsBalanced ==
    ~gallery.stale
    => /\ Len(gallery.columns) = gallery.columnCount
       /\ \A i \in 0..(Len(C20_Valid) - 1) :
             /\ C20_Places(C20_Valid[i + 1])
                  = {<<(i % gallery.columnCount) + 1, (i \div gallery.columnCount) + 1>>}
       /\ \A id \in gallery.invalidPhotos : C20_Places(id) = {}
       /\ \A a, b \in 1..Len(gallery.columns) :
             Len(gallery.columns[a]) - Len(gallery.columns[b]) <= 1

\* Two pages in three columns, with two photos gone whose images failed.
C20_Witness ==
    /\ ~gallery.stale
    /\ Len(gallery.pages) = 2
    /\ gallery.columnCount = 3
    /\ Cardinality(gallery.invalidPhotos) = 2
    /\ Len(C20_Valid) = 33
    /\ Len(gallery.columns[1]) = 11

----------------------------------------------------------------------------
(* The auto-close timer of PhotoModal *)

\* C21: the timer that fullSizeImg.onerror of a modal sets closes that modal
\* only: when it fires, the modal it closes, if it closes one, is the modal
\* that set it, never a modal opened since.
C21_TimerClosesOwnModal ==
    modal.last.op = "timer" => modal.last.closed \in {0, modal.last.instance}

====
